---- MODULE Spec2Model ----
(***************************************************************************)
(* Credit ledger, spend authorizer, grant issuer, webhook deduplication    *)
(* and referral payout of the cv-builder application, modelled over one    *)
(* transactional SQL store (PostgreSQL, READ COMMITTED): a statement sees  *)
(* every committed row, SELECT ... FOR UPDATE and UPDATE take the row lock *)
(* until the transaction ends, and a unique index decides an insert.       *)
(***************************************************************************)
EXTENDS Integers, Sequences, FiniteSets, TLC

\* ------------------------------------------------------------ bounds
NProcs == 3
NUsers == 3
MaxTime == 2
MaxAmt == 2
MaxB == 4

\* ------------------------------------------------------------ program constants
REFERRAL_CAP == 10
BONUS_PER_REFERRAL_CV == 5
BONUS_PER_REFERRAL_AI == 5
STARTER_CV == 5
STARTER_AI == 5

Procs == 1..NProcs
\* ids of the rows of the users table; MissingUser is an id with no row
Users == 1..NUsers
MissingUser == NUsers + 1
UserIds == 1..MissingUser

\* SQL NULL for a nullable column: the empty set; a value v is {v}
NULL == {}

VARIABLES
    users,            \* ids of the rows of table users
    credit_grants,    \* table credit_grants, in insertion (id) order
    credit_spends,    \* table credit_spends, in insertion (id) order
    now,              \* the database clock, NOW()
    row_lock,         \* users row -> the process whose transaction locks it, 0 if none
    pc,               \* each process's position in the call it makes
    args,             \* each process's call: function and arguments
    bal,              \* each process's local `bal`
    result,           \* each process's return value
    local,            \* each process's other local variables
    starter_credits_granted,  \* the users whose starter_credits_granted is TRUE
    referred_by,      \* users.referred_by: a referral code, 0 when empty
    referrals_count,  \* users.referrals_count
    count_increments, \* history: referee -> how often a referrer's count was raised for it
    stripe_events,    \* table stripe_events: the recorded event ids
    subscriptions,    \* table subscriptions: its rows, and whether the database has
                      \* a unique index on stripe_subscription_id
    user_rows,        \* table users: id -> the row's email, role, plan, password and
                      \* reset token columns
    tokens_issued     \* how many tokens secrets.token_urlsafe has returned

\* the users columns only the account functions of auth write
auth_state == <<user_rows, tokens_issued>>

\* the state the spend authorizer and the grant issuer never touch
others == <<local, starter_credits_granted, referred_by, referrals_count, count_increments,
            stripe_events, subscriptions, auth_state>>

vars == <<users, credit_grants, credit_spends, now, row_lock, pc, args, bal, result, others>>

Max(a, b) == IF a >= b THEN a ELSE b
Min(a, b) == IF a <= b THEN a ELSE b

\* a grant counted up to and including the instant it expires
Unexpired_AtInstant(g, t) == g.expires_at = NULL \/ \E e \in g.expires_at : e >= t

\* expires_at IS NULL OR expires_at > NOW()
Unexpired(g, t) == g.expires_at = NULL \/ \E e \in g.expires_at : e > t

RECURSIVE SumGrants(_, _, _, _, _)
\* SELECT SUM(<kind>_amount) FROM credit_grants WHERE user_id=u AND unexpired at t,
\* over the first n rows
SumGrants(rows, n, u, kind, t) ==
    IF n = 0 THEN 0
    ELSE SumGrants(rows, n - 1, u, kind, t)
         + (IF rows[n].user_id = u /\ Unexpired(rows[n], t)
            THEN (IF kind = "cv" THEN rows[n].cv_amount ELSE rows[n].ai_amount)
            ELSE 0)

RECURSIVE SumSpends(_, _, _, _)
\* SELECT SUM(<kind>_amount) FROM credit_spends WHERE user_id=u, over the first n rows
SumSpends(rows, n, u, kind) ==
    IF n = 0 THEN 0
    ELSE SumSpends(rows, n - 1, u, kind)
         + (IF rows[n].user_id = u
            THEN (IF kind = "cv" THEN rows[n].cv_amount ELSE rows[n].ai_amount)
            ELSE 0)

\* GREATEST(COALESCE(grants, 0) - COALESCE(spends, 0), 0) for both kinds
LedgerBalance(grants, spends, u, t) ==
    [cv |-> Max(SumGrants(grants, Len(grants), u, "cv", t)
                - SumSpends(spends, Len(spends), u, "cv"), 0),
     ai |-> Max(SumGrants(grants, Len(grants), u, "ai", t)
                - SumSpends(spends, Len(spends), u, "ai"), 0)]

\* App.get_credits_by_user_id: the balance query on a connection of its own
get_credits_by_user_id(u) == LedgerBalance(credit_grants, credit_spends, u, now)

\* App.get_user_credits_ledger: the same query on the caller's connection
get_user_credits_ledger(u) == LedgerBalance(credit_grants, credit_spends, u, now)

NoBal == [cv |-> 0, ai |-> 0]
NoArgs == [fn |-> "none", user |-> 0, source |-> <<"none", 0>>, cv |-> 0, ai |-> 0,
           expires |-> NULL, code |-> 0, event |-> NULL, typ |-> "none", plan |-> "none",
           subscription |-> NULL, customer |-> NULL, status |-> "unknown", cancel |-> FALSE,
           email |-> <<0, 0>>, role |-> "none", token |-> 0, password |-> 0]
NoLocal == [user_id |-> 0, period_end |-> NULL, marked |-> "none", inserted |-> "none",
            referee_id |-> 0, was_referred_by |-> 0, referrer_id |-> 0, ref_cnt |-> 0,
            stamped |-> FALSE, count_before |-> 0,
            seen |-> <<>>, last_bal |-> [cv |-> 0, ai |-> 0], faulted |-> FALSE,
            total |-> 0, email |-> <<0, 0>>]

\* an email address as typed: a name and a way of writing it in upper or lower
\* case, 0 being all lower case
Email(name, casing) == <<name, casing>>

\* str.lower() / SQL LOWER(): the same name, written in lower case
Lower(e) == <<e[1], 0>>

\* a users row as create_user inserts it: plan "free", no reset token
UserRow(email, role, pwd) ==
    [email |-> Lower(email), role |-> role, is_admin |-> IF role = "owner" THEN 1 ELSE 0,
     plan |-> "free", password_hash |-> pwd, reset_token |-> NULL,
     reset_token_created_at |-> NULL]

\* the users table after the users registered one after the other: user u has
\* email u, the first one is the owner
RegisteredUsers ==
    [u \in Users |-> UserRow(Email(u, 0), IF u = 1 THEN "owner" ELSE "user", 0)]

\* a call's place in the order Init lists calls in
CallRank(c) ==
    (CASE c.fn = "try_spend" -> 1
       [] c.fn = "spend_credits" -> 2
       [] c.fn = "insert_credit_grant" -> 3
       [] c.fn = "grant_starter_credits" -> 4
       [] c.fn = "grant_starter_credits_once" -> 5
       [] c.fn = "stripe_webhook" -> 6
       [] c.fn = "apply_referral_bonus" -> 7
       [] c.fn = "upsert_subscription" -> 8
       [] OTHER -> 9) * 10000
    + c.user * 1000 + c.source[2] * 100 + (c.cv + 1) * 10 + c.ai * 2
    + (IF c.expires = NULL THEN 0 ELSE 1)

\* a spend call's source is a free-text label of the action: here the caller's name
Labelled(c, p) == IF c.fn \in {"try_spend", "spend_credits"}
                  THEN [c EXCEPT !.source = <<"spend", p>>] ELSE c

\* the referral grants of a referrer whose referrals_count is n: one row for each
\* of n earlier referees, users that make no call here
PriorReferralGrants(referrer, n) ==
    [i \in 1..n |-> [user_id |-> referrer, source |-> <<"referral_bonus", MissingUser + i>>,
                     cv_amount |-> BONUS_PER_REFERRAL_CV, ai_amount |-> BONUS_PER_REFERRAL_AI,
                     expires_at |-> NULL]]

\* the state after construction and some earlier use: the schema exists, the users
\* are registered, the ledger holds `grants` and `spends`, user 1 has made `n`
\* referrals, and every process is about to make one call out of `calls`.
\* Processes are interchangeable, so each choice of calls is listed once, in the
\* order of CallRank.
InitDatabase(calls, grants, spends, n, unique_id, rows) ==
    /\ users = Users
    /\ user_rows = rows
    /\ tokens_issued = 0
    /\ credit_grants = grants
    /\ credit_spends = spends
    /\ now = 0
    /\ row_lock = [u \in UserIds |-> 0]
    /\ pc = [p \in Procs |-> "called"]
    /\ \E t \in [Procs -> calls] :
          /\ \A p \in Procs : p + 1 \in Procs => CallRank(t[p]) <= CallRank(t[p + 1])
          /\ args = [p \in Procs |-> Labelled(t[p], p)]
    /\ bal = [p \in Procs |-> NoBal]
    /\ result = [p \in Procs |-> "none"]
    /\ local = [p \in Procs |-> NoLocal]
    /\ starter_credits_granted = {}
    /\ referred_by = [u \in Users |-> 0]
    /\ referrals_count = [u \in Users |-> IF u = 1 THEN n ELSE 0]
    /\ count_increments = [u \in UserIds |-> 0]
    /\ stripe_events = {}
    /\ subscriptions = [unique_id |-> unique_id, rows |-> <<>>]

\* the same with the users as create_user made them
InitTables(calls, grants, spends, n, unique_id) ==
    InitDatabase(calls, grants, spends, n, unique_id, RegisteredUsers)

\* the same on a database whose subscriptions table has the unique index its
\* upsert names
InitState(calls, grants, spends, n) == InitTables(calls, grants, spends, n, TRUE)

\* a fresh database
InitWith(calls) == InitState(calls, <<>>, <<>>, 0)

\* the clock advances
Tick ==
    /\ now < MaxTime
    /\ now' = now + 1
    /\ UNCHANGED <<others, users, credit_grants, credit_spends, row_lock, pc, args, bal, result>>

\* ------------------------------------------------------------ Spend Authorizer

\* the process's return: its transaction ends, every row lock it holds is released
Release(p) == [u \in UserIds |-> IF row_lock[u] = p THEN 0 ELSE row_lock[u]]

\* a plain SELECT in place of SELECT ... FOR UPDATE: it never waits
RowLockFree_NoLock(u, p) == TRUE

\* SELECT id FROM users WHERE id=%s FOR UPDATE: waits while another transaction
\* holds the row
RowLockFree(u, p) == row_lock[u] \in {0, p}

\* the checks passed over for a user on a paid plan, with a role above "user" or
\* with a subscription
Sufficient_OrPrivileged(b, cv, ai) ==
    \/ ~(cv > 0 /\ b.cv < cv) /\ ~(ai > 0 /\ b.ai < ai)
    \/ \E i \in DOMAIN user_rows : user_rows[i].plan # "free" \/ user_rows[i].role = "admin"
    \/ subscriptions.rows # <<>>

\* the AI check left out
Sufficient_CvOnly(b, cv, ai) == ~(cv > 0 /\ b.cv < cv)

\* if cv > 0 and bal["cv"] < cv: return False / if ai > 0 and bal["ai"] < ai: return False
Sufficient(b, cv, ai) == ~(cv > 0 /\ b.cv < cv) /\ ~(ai > 0 /\ b.ai < ai)

SpendRow(a) == [user_id |-> a.user, source |-> a.source, cv_amount |-> a.cv, ai_amount |-> a.ai]

\* lock the user row; a missing user returns False
SpendLock(p, fn) ==
    /\ pc[p] = "called"
    /\ args[p].fn = fn
    /\ IF args[p].user \notin users
       THEN /\ pc' = [pc EXCEPT ![p] = "done"]
            /\ result' = [result EXCEPT ![p] = "false"]
            /\ UNCHANGED row_lock
       ELSE /\ RowLockFree(args[p].user, p)
            /\ row_lock' = [row_lock EXCEPT ![args[p].user] = p]
            /\ pc' = [pc EXCEPT ![p] = "locked"]
            /\ UNCHANGED result
    /\ UNCHANGED <<others, users, credit_grants, credit_spends, now, args, bal>>

\* bal = <balance query>
SpendBalance(p, fn, b) ==
    /\ pc[p] = "locked"
    /\ args[p].fn = fn
    /\ bal' = [bal EXCEPT ![p] = b]
    /\ pc' = [pc EXCEPT ![p] = "read"]
    /\ UNCHANGED <<others, users, credit_grants, credit_spends, now, row_lock, args, result>>

\* the balance checks, then INSERT INTO credit_spends and commit
SpendInsert(p, fn) ==
    /\ pc[p] = "read"
    /\ args[p].fn = fn
    /\ IF Sufficient(bal[p], args[p].cv, args[p].ai)
       THEN /\ credit_spends' = Append(credit_spends, SpendRow(args[p]))
            /\ result' = [result EXCEPT ![p] = "true"]
       ELSE /\ result' = [result EXCEPT ![p] = "false"]
            /\ UNCHANGED credit_spends
    /\ row_lock' = Release(p)
    /\ pc' = [pc EXCEPT ![p] = "done"]
    /\ UNCHANGED <<others, users, credit_grants, now, args, bal>>

\* App.try_spend
try_spend_lock(p) == SpendLock(p, "try_spend")
try_spend_balance(p) == SpendBalance(p, "try_spend", get_credits_by_user_id(args[p].user))
try_spend_insert(p) == SpendInsert(p, "try_spend")

\* App.spend_credits
spend_credits_lock(p) == SpendLock(p, "spend_credits")
spend_credits_balance(p) == SpendBalance(p, "spend_credits", get_user_credits_ledger(args[p].user))
spend_credits_insert(p) == SpendInsert(p, "spend_credits")

\* ------------------------------------------------------------ Grant Issuer

GrantRow(u, src, cv, ai, exp) ==
    [user_id |-> u, source |-> src, cv_amount |-> cv, ai_amount |-> ai, expires_at |-> exp]

\* the unique index credit_grants_source_key: a row with this source exists
SourceExists(rows, src) == \E i \in 1..Len(rows) : rows[i].source = src

\* a plain INSERT on a table without the unique index
InsertAlways(rows, row) == Append(rows, row)

\* ON CONFLICT (source) DO UPDATE in its place: the row with the source is rewritten
InsertOnConflictDoUpdate(rows, row) ==
    IF SourceExists(rows, row.source)
    THEN [i \in 1..Len(rows) |-> IF rows[i].source = row.source THEN row ELSE rows[i]]
    ELSE Append(rows, row)

\* INSERT ... ON CONFLICT (source) DO NOTHING: the table afterwards
InsertOnConflictDoNothing(rows, row) ==
    IF SourceExists(rows, row.source) THEN rows ELSE Append(rows, row)

\* webhook.insert_credit_grant: one statement, RETURNING id tells whether it inserted
insert_credit_grant(p) ==
    /\ pc[p] = "called"
    /\ args[p].fn = "insert_credit_grant"
    /\ LET row == GrantRow(args[p].user, args[p].source, args[p].cv, args[p].ai, args[p].expires)
           after == InsertOnConflictDoNothing(credit_grants, row)
       IN /\ credit_grants' = after
          /\ result' = [result EXCEPT ![p] = IF Len(after) > Len(credit_grants) THEN "true" ELSE "false"]
    /\ pc' = [pc EXCEPT ![p] = "done"]
    /\ UNCHANGED <<others, users, credit_spends, now, row_lock, args, bal>>

\* auth.grant_starter_credits: INSERT ... ON CONFLICT (source) DO NOTHING with
\* source starter_grant:<user_id>; returns whether it inserted
grant_starter_credits(p) ==
    /\ pc[p] = "called"
    /\ args[p].fn = "grant_starter_credits"
    /\ LET row == GrantRow(args[p].user, <<"starter_grant", args[p].user>>, STARTER_CV, STARTER_AI, NULL)
           after == InsertOnConflictDoNothing(credit_grants, row)
       IN IF args[p].user \in users
          THEN /\ credit_grants' = after
               /\ result' = [result EXCEPT ![p] =
                                 IF Len(after) > Len(credit_grants) THEN "true" ELSE "false"]
          ELSE \* the foreign key on user_id raises: except -> rollback, return False
               /\ result' = [result EXCEPT ![p] = "false"]
               /\ UNCHANGED credit_grants
    /\ pc' = [pc EXCEPT ![p] = "done"]
    /\ UNCHANGED <<others, users, credit_spends, now, row_lock, args, bal>>

\* App.grant_starter_credits_once: SELECT starter_credits_granted; return if set
grant_starter_credits_once_read(p) ==
    /\ pc[p] = "called"
    /\ args[p].fn = "grant_starter_credits_once"
    /\ IF args[p].user \in starter_credits_granted
       THEN /\ pc' = [pc EXCEPT ![p] = "done"]
            /\ result' = [result EXCEPT ![p] = "returned"]
       ELSE /\ pc' = [pc EXCEPT ![p] = "once_insert"]
            /\ UNCHANGED result
    /\ UNCHANGED <<others, users, credit_grants, credit_spends, now, row_lock, args, bal>>

\* App.grant_starter_credits_once: a plain INSERT with the source 'starter', then
\* the flag, then the commit; the unique index raises on a second 'starter' row
\* and the transaction is rolled back
grant_starter_credits_once_insert(p) ==
    /\ pc[p] = "once_insert"
    /\ IF SourceExists(credit_grants, <<"starter", 0>>)
       THEN /\ result' = [result EXCEPT ![p] = "error"]
            /\ UNCHANGED <<credit_grants, starter_credits_granted>>
       ELSE /\ credit_grants' = Append(credit_grants, GrantRow(args[p].user, <<"starter", 0>>, 5, 5, NULL))
            /\ starter_credits_granted' = starter_credits_granted \cup {args[p].user}
            /\ result' = [result EXCEPT ![p] = "returned"]
    /\ pc' = [pc EXCEPT ![p] = "done"]
    /\ UNCHANGED <<auth_state, local, referred_by, referrals_count, count_increments, stripe_events, subscriptions,
                   users, credit_spends, now, row_lock, args, bal>>

\* ------------------------------------------------------------ metered actions of the UI

\* CV_USAGE_KEYS; every other counter key burns the AI bucket
CV_USAGE_KEYS == {"cv_generations"}

\* App.has_free_quota(counter_key, 1, label) for the signed-in user: owner and
\* admin pass; otherwise the bucket of get_user_credits(email) must hold the cost
has_free_quota(p) ==
    /\ pc[p] = "called"
    /\ args[p].fn = "has_free_quota"
    /\ LET u == args[p].user
           credits == get_user_credits_ledger(u)
           remaining == IF args[p].source[1] \in CV_USAGE_KEYS THEN credits.cv ELSE credits.ai
           required == args[p].cv + args[p].ai
       IN IF user_rows[u].role \in {"owner", "admin"} \/ ~(remaining < required)
          THEN /\ result' = [result EXCEPT ![p] = "true"]
               /\ pc' = [pc EXCEPT ![p] = "quota_ok"]
          ELSE \* show_paywall, st.stop()
               /\ result' = [result EXCEPT ![p] = "false"]
               /\ pc' = [pc EXCEPT ![p] = "stopped"]
    /\ UNCHANGED <<others, users, credit_grants, credit_spends, now, row_lock, args, bal>>

\* the btn_summary handler after has_free_quota: generate_tailored_summary, the
\* result staged in cv_summary_pending, increment_usage on the users row
btn_summary(p) ==
    /\ pc[p] = "quota_ok"
    /\ pc' = [pc EXCEPT ![p] = "completed"]
    /\ UNCHANGED <<others, users, credit_grants, credit_spends, now, row_lock, args, bal, result>>

\* a handler that spends first (skills, role, job search, job summary, cover
\* letter, CV generation): the action runs after try_spend / spend_ai_credit
\* returned True
metered_action(p) ==
    /\ pc[p] = "done"
    /\ args[p].fn \in {"try_spend", "spend_credits"}
    /\ result[p] = "true"
    /\ pc' = [pc EXCEPT ![p] = "completed"]
    /\ UNCHANGED <<others, users, credit_grants, credit_spends, now, row_lock, args, bal, result>>

\* if not spent: st.warning(...), st.stop()
st_stop(p) ==
    /\ pc[p] = "done"
    /\ args[p].fn \in {"try_spend", "spend_credits"}
    /\ result[p] = "false"
    /\ pc' = [pc EXCEPT ![p] = "stopped"]
    /\ UNCHANGED <<others, users, credit_grants, credit_spends, now, row_lock, args, bal, result>>

\* ------------------------------------------------------------ accounts

\* SELECT id FROM users WHERE LOWER(email) = LOWER(?): the ids found
IdsByEmail(email) == {i \in DOMAIN user_rows : user_rows[i].email = Lower(email)}

\* role (and is_admin) of the row create_user inserts after counting `total` rows
RoleFor(total) == IF total = 0 THEN "owner" ELSE "user"

\* auth.create_user: SELECT id ... WHERE LOWER(email) = LOWER(?); an existing
\* email returns False
create_user_select(p) ==
    /\ pc[p] = "called"
    /\ args[p].fn = "create_user"
    /\ IF IdsByEmail(args[p].email) # {}
       THEN /\ result' = [result EXCEPT ![p] = "false"]
            /\ pc' = [pc EXCEPT ![p] = "done"]
       ELSE /\ pc' = [pc EXCEPT ![p] = "selected"]
            /\ UNCHANGED result
    /\ UNCHANGED <<others, users, credit_grants, credit_spends, now, row_lock, args, bal>>

\* auth.create_user: total = SELECT COUNT(*) FROM users
create_user_count(p) ==
    /\ pc[p] = "selected"
    /\ local' = [local EXCEPT ![p].total = Cardinality(DOMAIN user_rows)]
    /\ pc' = [pc EXCEPT ![p] = "counted"]
    /\ UNCHANGED <<auth_state, starter_credits_granted, referred_by, referrals_count,
                   count_increments, stripe_events, subscriptions, users, credit_grants,
                   credit_spends, now, row_lock, args, bal, result>>

\* auth.create_user: INSERT INTO users (...), commit, return True; the insert
\* raises on the UNIQUE email column when the email was inserted meanwhile
create_user_insert(p) ==
    /\ pc[p] = "counted"
    /\ IF IdsByEmail(args[p].email) # {}
       THEN /\ result' = [result EXCEPT ![p] = "error"]
            /\ UNCHANGED <<user_rows, users>>
       ELSE LET id == Cardinality(DOMAIN user_rows) + 1
                row == UserRow(args[p].email, RoleFor(local[p].total), args[p].password)
            IN /\ user_rows' = [i \in DOMAIN user_rows \cup {id} |->
                                   IF i = id THEN row ELSE user_rows[i]]
               /\ users' = users \cup {id}
               /\ result' = [result EXCEPT ![p] = "true"]
    /\ pc' = [pc EXCEPT ![p] = "done"]
    /\ UNCHANGED <<local, starter_credits_granted, referred_by, referrals_count,
                   count_increments, stripe_events, subscriptions, tokens_issued,
                   credit_grants, credit_spends, now, row_lock, args, bal>>

\* ------------------------------------------------------------ plan and role

\* UPDATE users SET <column> = <value> WHERE LOWER(email) = LOWER(?): the table
\* afterwards
UpdateByEmail(rows, email, column, value) ==
    [i \in DOMAIN rows |->
        IF rows[i].email = Lower(email) THEN [rows[i] EXCEPT ![column] = value] ELSE rows[i]]

\* the update waits while another transaction holds a row it changes
RowsFree(email, p) ==
    \A i \in DOMAIN user_rows : user_rows[i].email = Lower(email) => RowLockFree(i, p)

\* auth.set_plan: UPDATE users SET plan = ? WHERE LOWER(email) = LOWER(?), commit
set_plan(p) ==
    /\ pc[p] = "called"
    /\ args[p].fn = "set_plan"
    /\ RowsFree(args[p].email, p)
    /\ user_rows' = UpdateByEmail(user_rows, args[p].email, "plan", args[p].plan)
    /\ result' = [result EXCEPT ![p] = "returned"]
    /\ pc' = [pc EXCEPT ![p] = "done"]
    /\ UNCHANGED <<local, starter_credits_granted, referred_by, referrals_count,
                   count_increments, stripe_events, subscriptions, tokens_issued, users,
                   credit_grants, credit_spends, now, row_lock, args, bal>>

\* auth.set_role: UPDATE users SET role = ? WHERE LOWER(email) = LOWER(?), commit
set_role(p) ==
    /\ pc[p] = "called"
    /\ args[p].fn = "set_role"
    /\ RowsFree(args[p].email, p)
    /\ user_rows' = UpdateByEmail(user_rows, args[p].email, "role", args[p].role)
    /\ result' = [result EXCEPT ![p] = "returned"]
    /\ pc' = [pc EXCEPT ![p] = "done"]
    /\ UNCHANGED <<local, starter_credits_granted, referred_by, referrals_count,
                   count_increments, stripe_events, subscriptions, tokens_issued, users,
                   credit_grants, credit_spends, now, row_lock, args, bal>>

\* ------------------------------------------------------------ password reset

\* RESET_TOKEN_EXPIRY_HOURS = 2, the clock counting hours
RESET_TOKEN_EXPIRY_HOURS == 2

\* auth.get_user_by_reset_token at time t: the ids of the rows whose reset_token
\* is the token, whose reset_token_created_at is set and not more than
\* RESET_TOKEN_EXPIRY_HOURS before t
get_user_by_reset_token(token, t) ==
    {i \in DOMAIN user_rows :
        /\ user_rows[i].reset_token = {token}
        /\ user_rows[i].reset_token_created_at # NULL
        /\ \A c \in user_rows[i].reset_token_created_at : ~(t - c > RESET_TOKEN_EXPIRY_HOURS)}

\* auth.create_password_reset_token: SELECT id by email; no row returns None
create_password_reset_token_select(p) ==
    /\ pc[p] = "called"
    /\ args[p].fn = "create_password_reset_token"
    /\ IF IdsByEmail(args[p].email) = {}
       THEN /\ result' = [result EXCEPT ![p] = "None"]
            /\ pc' = [pc EXCEPT ![p] = "done"]
       ELSE /\ pc' = [pc EXCEPT ![p] = "token_selected"]
            /\ UNCHANGED result
    /\ UNCHANGED <<others, users, credit_grants, credit_spends, now, row_lock, args, bal>>

\* auth.create_password_reset_token: token = secrets.token_urlsafe(32), a value
\* not returned before; UPDATE users SET reset_token, reset_token_created_at
\* WHERE LOWER(email) = LOWER(?); commit; return token
create_password_reset_token_update(p) ==
    /\ pc[p] = "token_selected"
    /\ RowsFree(args[p].email, p)
    /\ LET token == tokens_issued + 1
       IN /\ tokens_issued' = token
          /\ user_rows' = UpdateByEmail(UpdateByEmail(user_rows, args[p].email,
                                                      "reset_token", {token}),
                                        args[p].email, "reset_token_created_at", {now})
    /\ result' = [result EXCEPT ![p] = "token"]
    /\ pc' = [pc EXCEPT ![p] = "done"]
    /\ UNCHANGED <<local, starter_credits_granted, referred_by, referrals_count,
                   count_increments, stripe_events, subscriptions, users,
                   credit_grants, credit_spends, now, row_lock, args, bal>>

\* auth.clear_reset_token: UPDATE users SET reset_token = NULL,
\* reset_token_created_at = NULL WHERE LOWER(email) = LOWER(?); commit
clear_reset_token(p) ==
    /\ pc[p] = "called"
    /\ args[p].fn = "clear_reset_token"
    /\ RowsFree(args[p].email, p)
    /\ user_rows' = UpdateByEmail(UpdateByEmail(user_rows, args[p].email, "reset_token", NULL),
                                  args[p].email, "reset_token_created_at", NULL)
    /\ result' = [result EXCEPT ![p] = "returned"]
    /\ pc' = [pc EXCEPT ![p] = "done"]
    /\ UNCHANGED <<local, starter_credits_granted, referred_by, referrals_count,
                   count_increments, stripe_events, subscriptions, tokens_issued, users,
                   credit_grants, credit_spends, now, row_lock, args, bal>>

\* auth.reset_password_with_token: an empty token, or one get_user_by_reset_token
\* finds no user for, returns False; otherwise email = user["email"]
reset_password_with_token_check(p) ==
    /\ pc[p] = "called"
    /\ args[p].fn = "reset_password_with_token"
    /\ LET found == get_user_by_reset_token(args[p].token, now)
       IN IF args[p].token = 0 \/ found = {}
          THEN /\ result' = [result EXCEPT ![p] = "false"]
               /\ pc' = [pc EXCEPT ![p] = "done"]
               /\ UNCHANGED local
          ELSE /\ local' = [local EXCEPT ![p].email = user_rows[CHOOSE i \in found : TRUE].email]
               /\ pc' = [pc EXCEPT ![p] = "token_checked"]
               /\ UNCHANGED result
    /\ UNCHANGED <<auth_state, starter_credits_granted, referred_by, referrals_count,
                   count_increments, stripe_events, subscriptions, users, credit_grants,
                   credit_spends, now, row_lock, args, bal>>

\* auth.reset_password_with_token, on a second connection: UPDATE users SET
\* password_hash = ?, reset_token = NULL, reset_token_created_at = NULL WHERE
\* LOWER(email) = LOWER(?); commit; return cur.rowcount > 0
reset_password_with_token_update(p) ==
    /\ pc[p] = "token_checked"
    /\ RowsFree(local[p].email, p)
    /\ user_rows' = UpdateByEmail(UpdateByEmail(UpdateByEmail(user_rows, local[p].email,
                                                              "password_hash", args[p].password),
                                                local[p].email, "reset_token", NULL),
                                  local[p].email, "reset_token_created_at", NULL)
    /\ result' = [result EXCEPT ![p] = IF IdsByEmail(local[p].email) # {} THEN "true" ELSE "false"]
    /\ pc' = [pc EXCEPT ![p] = "done"]
    /\ UNCHANGED <<local, starter_credits_granted, referred_by, referrals_count,
                   count_increments, stripe_events, subscriptions, tokens_issued, users,
                   credit_grants, credit_spends, now, row_lock, args, bal>>

\* ------------------------------------------------------------ user deletion

\* auth.delete_user: DELETE FROM users WHERE LOWER(email) = LOWER(?), commit.  The
\* delete waits for a lock held on the row; credit_grants.user_id and
\* credit_spends.user_id reference users(id) ON DELETE CASCADE, so the user's
\* ledger rows go with the user.
delete_user(p) ==
    /\ pc[p] = "called"
    /\ args[p].fn = "delete_user"
    /\ LET u == args[p].user
       IN /\ u \in users => RowLockFree(u, p)
          /\ users' = users \ {u}
          /\ credit_grants' = IF u \in users
                              THEN SelectSeq(credit_grants, LAMBDA g : g.user_id # u)
                              ELSE credit_grants
          /\ credit_spends' = IF u \in users
                              THEN SelectSeq(credit_spends, LAMBDA r : r.user_id # u)
                              ELSE credit_spends
          /\ user_rows' = [i \in DOMAIN user_rows \ {u} |-> user_rows[i]]
    /\ result' = [result EXCEPT ![p] = "returned"]
    /\ pc' = [pc EXCEPT ![p] = "done"]
    /\ UNCHANGED <<local, starter_credits_granted, referred_by, referrals_count,
                   count_increments, stripe_events, subscriptions, tokens_issued, now,
                   row_lock, args, bal>>

\* ------------------------------------------------------------ balance reads and sessions

\* the balance query of fn
BalanceQuery(fn, u) ==
    IF fn = "get_credits_by_user_id" THEN get_credits_by_user_id(u)
    ELSE get_user_credits_ledger(u)

BalanceFns == {"get_credits_by_user_id", "get_user_credits_ledger"}

\* get_credits_by_user_id(user_id) / get_user_credits_ledger(conn, user_id): one
\* SELECT, the row returned as {"cv": ..., "ai": ...}.  While nothing was written
\* and the clock stood still since, seen remembers the user the session's last
\* read was of and whether the read before it was of the same user on the same
\* ledger and clock (2) or not (1), and last_bal what the read returned.
get_balance(p) ==
    /\ pc[p] = "called"
    /\ args[p].fn \in BalanceFns
    /\ LET b == BalanceQuery(args[p].fn, args[p].user)
       IN /\ bal' = [bal EXCEPT ![p] = b]
          /\ local' = [local EXCEPT ![p].seen =
                                         IF local[p].seen # <<>> /\ local[p].seen[1] = args[p].user
                                         THEN <<args[p].user, 2>> ELSE <<args[p].user, 1>>,
                                     ![p].last_bal = b]
    /\ result' = [result EXCEPT ![p] = "returned"]
    /\ pc' = [pc EXCEPT ![p] = "done"]
    /\ UNCHANGED <<auth_state, starter_credits_granted, referred_by, referrals_count, count_increments,
                   stripe_events, subscriptions, users, credit_grants, credit_spends, now,
                   row_lock, args>>

\* the process has no call under way
Idle(p) == pc[p] = "done" \/ args[p].fn = "none"

\* a session makes its next call: one of `calls`, a spend row labelled by its
\* place in credit_spends
session_call(p, calls) ==
    /\ Idle(p)
    /\ \E c \in calls :
          /\ args' = [args EXCEPT ![p] = IF c.fn \in {"try_spend", "spend_credits"}
                                         THEN [c EXCEPT !.source =
                                                  <<"spend", Len(credit_spends) + 1>>]
                                         ELSE c]
          /\ local' = IF c.fn \in BalanceFns THEN local
                      ELSE [local EXCEPT ![p].seen = <<>>, ![p].last_bal = NoBal]
    /\ pc' = [pc EXCEPT ![p] = "called"]
    /\ result' = [result EXCEPT ![p] = "none"]
    /\ bal' = [bal EXCEPT ![p] = NoBal]
    /\ UNCHANGED <<auth_state, starter_credits_granted, referred_by, referrals_count, count_increments,
                   stripe_events, subscriptions, users, credit_grants, credit_spends, now,
                   row_lock>>

\* the clock advances between two calls
TickIdle ==
    /\ \A p \in Procs : Idle(p)
    /\ now < MaxTime
    /\ now' = now + 1
    /\ local' = [p \in Procs |-> [local[p] EXCEPT !.seen = <<>>, !.last_bal = NoBal]]
    /\ UNCHANGED <<auth_state, starter_credits_granted, referred_by, referrals_count, count_increments,
                   stripe_events, subscriptions, users, credit_grants, credit_spends,
                   row_lock, pc, args, bal, result>>

\* ------------------------------------------------------------ Stripe webhook

\* CREDIT_STACKING = os.getenv("CREDIT_STACKING", "false").lower() == "true"
CREDIT_STACKING == FALSE

\* webhook.credits_for_plan
credits_for_plan(plan) ==
    IF plan = "monthly" THEN <<20, 30>>
    ELSE IF plan = "pro" THEN <<50, 90>>
    ELSE <<0, 0>>

\* webhook.plan_from_price, the price ids being STRIPE_PRICE_MONTHLY and STRIPE_PRICE_PRO
plan_from_price(price) ==
    IF price = "price_monthly" THEN "monthly"
    ELSE IF price = "price_pro" THEN "pro"
    ELSE "none"

\* an insert that reports every event id as new
EventIsNew_Always(e) == TRUE

\* webhook.mark_event_processed: the INSERT into stripe_events succeeds iff the
\* primary key is new
EventIsNew(e) == e \notin stripe_events

\* the handler going on without the event id in stripe_events
MarkedEvents_NotRecorded(e, new) == stripe_events

\* stripe_events after mark_event_processed(event_id): the id is in it once the
\* INSERT has committed
MarkedEvents(e, new) == IF new THEN stripe_events \cup e ELSE stripe_events

InvoiceTypes == {"invoice.paid", "invoice.payment_succeeded"}

\* what stripe.Subscription.retrieve may report as current_period_end: the end of
\* the running period, later than the clock
PeriodEnds == {t \in 1..(MaxTime + 1) : t > now}

\* webhook.upsert_subscription: INSERT ... ON CONFLICT (stripe_subscription_id) DO UPDATE
upsert_subscription(subs, user_id, customer_id, subscription_id, plan, status, period_end, cancel) ==
    LET row == [user_id |-> user_id, stripe_customer_id |-> customer_id,
                stripe_subscription_id |-> subscription_id, plan |-> plan,
                status |-> status, current_period_end |-> period_end,
                cancel_at_period_end |-> cancel]
        at == {i \in 1..Len(subs) : subs[i].stripe_subscription_id = subscription_id}
    IN IF at = {} THEN Append(subs, row)
       ELSE [i \in 1..Len(subs) |-> IF i \in at THEN row ELSE subs[i]]

\* ON CONFLICT (stripe_subscription_id) on a table without a unique index on that
\* column: the statement raises (there is no unique or exclusion constraint
\* matching the ON CONFLICT specification)
UpsertRaises(table) == ~table.unique_id

\* upsert_subscription(...) called on its own: if not subscription_id: return;
\* else the INSERT ... ON CONFLICT DO UPDATE and the commit
upsert_subscription_call(p) ==
    /\ pc[p] = "called"
    /\ args[p].fn = "upsert_subscription"
    /\ IF args[p].subscription = NULL
       THEN /\ result' = [result EXCEPT ![p] = "returned"]
            /\ UNCHANGED subscriptions
       ELSE IF UpsertRaises(subscriptions)
       THEN /\ result' = [result EXCEPT ![p] = "error"]
            /\ UNCHANGED subscriptions
       ELSE /\ result' = [result EXCEPT ![p] = "returned"]
            /\ \E sid \in args[p].subscription :
                  subscriptions' = [subscriptions EXCEPT !.rows =
                      upsert_subscription(@, args[p].user, args[p].customer, sid, args[p].plan,
                                          args[p].status, args[p].expires, args[p].cancel)]
    /\ pc' = [pc EXCEPT ![p] = "done"]
    /\ UNCHANGED <<auth_state, local, starter_credits_granted, referred_by, referrals_count,
                   count_increments, stripe_events, users, credit_grants, credit_spends, now,
                   row_lock, args, bal>>

\* user_id = get_or_create_user_id(email) in the checkout.session.completed
\* branch: the name is defined and imported nowhere, Python raises NameError and
\* the request is answered with an error
get_or_create_user_id == "error"

\* stripe_webhook up to the dispatch on the event type: record the event id,
\* return on a duplicate, on a type that is not handled, on an unknown price and
\* on a missing email; the checkout.session.completed branch ends at its call of
\* get_or_create_user_id
stripe_webhook_receive(p) ==
    /\ pc[p] = "called"
    /\ args[p].fn = "stripe_webhook"
    /\ LET new == args[p].event = NULL \/ \A e \in args[p].event : EventIsNew(e)
       IN /\ stripe_events' = MarkedEvents(args[p].event, new)
          /\ local' = [local EXCEPT ![p].marked = IF new THEN "true" ELSE "false"]
          /\ IF ~new
             THEN /\ result' = [result EXCEPT ![p] = "duplicate_ignored"]
                  /\ pc' = [pc EXCEPT ![p] = "done"]
             ELSE IF args[p].typ = "checkout.session.completed"
             THEN \* no pack, no email: ignored; else get_or_create_user_id(email),
                  \* a name no module defines: the call raises NameError
                  /\ result' = [result EXCEPT ![p] =
                                    IF args[p].plan = "none" \/ args[p].user = 0
                                    THEN "ignored" ELSE get_or_create_user_id]
                  /\ pc' = [pc EXCEPT ![p] = "done"]
             ELSE IF args[p].typ \notin InvoiceTypes
             THEN /\ result' = [result EXCEPT ![p] = "ok"]
                  /\ pc' = [pc EXCEPT ![p] = "done"]
             ELSE IF plan_from_price(args[p].plan) = "none" \/ args[p].user = 0
             THEN /\ result' = [result EXCEPT ![p] = "ignored"]
                  /\ pc' = [pc EXCEPT ![p] = "done"]
             ELSE /\ pc' = [pc EXCEPT ![p] = "wh_find_user"]
                  /\ UNCHANGED result
    /\ UNCHANGED <<auth_state, starter_credits_granted, referred_by, referrals_count, count_increments,
                   subscriptions, users, credit_grants, credit_spends, now, row_lock, args, bal>>

\* user_id = find_user_id_by_email(email); no row: ignored
stripe_webhook_find_user(p) ==
    /\ pc[p] = "wh_find_user"
    /\ IF args[p].user \in users
       THEN /\ local' = [local EXCEPT ![p].user_id = args[p].user]
            /\ pc' = [pc EXCEPT ![p] = "wh_subscription"]
            /\ UNCHANGED result
       ELSE /\ result' = [result EXCEPT ![p] = "ignored"]
            /\ pc' = [pc EXCEPT ![p] = "done"]
            /\ UNCHANGED local
    /\ UNCHANGED <<auth_state, starter_credits_granted, referred_by, referrals_count, count_increments,
                   stripe_events, subscriptions, users, credit_grants, credit_spends, now,
                   row_lock, args, bal>>

\* if subscription_id: sub = stripe.Subscription.retrieve(...); upsert_subscription(...)
stripe_webhook_subscription(p) ==
    /\ pc[p] = "wh_subscription"
    /\ IF args[p].subscription = NULL
       THEN /\ pc' = [pc EXCEPT ![p] = "wh_grant"]
            /\ UNCHANGED <<local, subscriptions, result>>
       ELSE IF UpsertRaises(subscriptions)
       THEN /\ pc' = [pc EXCEPT ![p] = "done"]
            /\ result' = [result EXCEPT ![p] = "error"]
            /\ UNCHANGED <<local, subscriptions>>
       ELSE /\ \E pe \in PeriodEnds : \E sid \in args[p].subscription :
                 /\ local' = [local EXCEPT ![p].period_end = {pe}]
                 /\ subscriptions' = [subscriptions EXCEPT !.rows =
                        upsert_subscription(@, local[p].user_id, args[p].customer, sid,
                                            plan_from_price(args[p].plan), "active", {pe},
                                            FALSE)]
            /\ pc' = [pc EXCEPT ![p] = "wh_grant"]
            /\ UNCHANGED result
    /\ UNCHANGED <<auth_state, starter_credits_granted, referred_by, referrals_count, count_increments,
                   stripe_events, users, credit_grants, credit_spends, now, row_lock, args,
                   bal>>

\* the source the invoice's grant is keyed by: f"stripe_invoice:{invoice_id}"
InvoiceSource(a) == <<"stripe_invoice", a.source[2]>>

\* cv_amt, ai_amt = credits_for_plan(plan); insert_credit_grant(...); return ok
stripe_webhook_grant(p) ==
    /\ pc[p] = "wh_grant"
    /\ LET amt == credits_for_plan(plan_from_price(args[p].plan))
           row == GrantRow(local[p].user_id, InvoiceSource(args[p]), amt[1], amt[2],
                           IF CREDIT_STACKING THEN NULL ELSE local[p].period_end)
           after == InsertOnConflictDoNothing(credit_grants, row)
       IN /\ credit_grants' = after
          /\ local' = [local EXCEPT ![p].inserted =
                          IF Len(after) > Len(credit_grants) THEN "true" ELSE "false"]
    /\ result' = [result EXCEPT ![p] = "ok"]
    /\ pc' = [pc EXCEPT ![p] = "done"]
    /\ UNCHANGED <<auth_state, starter_credits_granted, referred_by, referrals_count, count_increments,
                   stripe_events, subscriptions, users, credit_spends, now, row_lock, args, bal>>

\* ------------------------------------------------------------ referral bonus (auth)

\* the cap test passing a referrer that is exactly at the cap
AtCap_OffByOne(cnt) == cnt > REFERRAL_CAP

\* if ref_cnt >= cap
AtCap(cnt) == cnt >= REFERRAL_CAP

\* f"referral_bonus:{referee_id}"
ReferralSource(referee_id) == <<"referral_bonus", referee_id>>

\* the users row a referral code belongs to: user u's code is u
ReferrerOf(code) == code

\* the increment made whether or not the grant was inserted
Incremented_Always(cnt, inserted) == cnt + 1

\* if inserted: UPDATE users SET referrals_count = COALESCE(referrals_count,0) + 1
Incremented(cnt, inserted) == IF inserted THEN cnt + 1 ELSE cnt

\* empty email or code: return False; else SELECT id, referred_by FROM users WHERE
\* email = ...; no row: return False.  count_before remembers the referrer's
\* referrals_count at the time of the call.
apply_referral_bonus_referee(p) ==
    /\ pc[p] = "called"
    /\ args[p].fn = "apply_referral_bonus"
    /\ IF args[p].user = 0 \/ args[p].code = 0 \/ args[p].user \notin users
       THEN /\ result' = [result EXCEPT ![p] = "false"]
            /\ pc' = [pc EXCEPT ![p] = "done"]
            /\ local' = [local EXCEPT ![p].count_before =
                            IF ReferrerOf(args[p].code) \in users
                            THEN referrals_count[ReferrerOf(args[p].code)] ELSE 0]
       ELSE /\ local' = [local EXCEPT ![p].referee_id = args[p].user,
                                       ![p].was_referred_by = referred_by[args[p].user],
                                       ![p].count_before =
                                           IF ReferrerOf(args[p].code) \in users
                                           THEN referrals_count[ReferrerOf(args[p].code)] ELSE 0]
            /\ pc' = [pc EXCEPT ![p] = "rb_referrer"]
            /\ UNCHANGED result
    /\ UNCHANGED <<auth_state, starter_credits_granted, referred_by, referrals_count, count_increments,
                   stripe_events, subscriptions, users, credit_grants, credit_spends, now,
                   row_lock, args, bal>>

\* SELECT id, COALESCE(referrals_count,0) FROM users WHERE referral_code = ...;
\* no row: return False
apply_referral_bonus_referrer(p) ==
    /\ pc[p] = "rb_referrer"
    /\ IF ReferrerOf(args[p].code) \in users
       THEN /\ local' = [local EXCEPT ![p].referrer_id = ReferrerOf(args[p].code),
                                       ![p].ref_cnt = referrals_count[ReferrerOf(args[p].code)]]
            /\ pc' = [pc EXCEPT ![p] = "rb_stamp"]
            /\ UNCHANGED result
       ELSE /\ result' = [result EXCEPT ![p] = "false"]
            /\ pc' = [pc EXCEPT ![p] = "done"]
            /\ UNCHANGED local
    /\ UNCHANGED <<auth_state, starter_credits_granted, referred_by, referrals_count, count_increments,
                   stripe_events, subscriptions, users, credit_grants, credit_spends, now,
                   row_lock, args, bal>>

\* if not referred_by: UPDATE users SET referred_by=? WHERE id=? (the row stays
\* locked, the new value unseen by others, until the commit);
\* if ref_cnt >= cap: commit, return False
apply_referral_bonus_stamp(p) ==
    /\ pc[p] = "rb_stamp"
    /\ LET stamp == local[p].was_referred_by = 0
           referee == local[p].referee_id
       IN /\ stamp => RowLockFree(referee, p)
          /\ IF AtCap(local[p].ref_cnt)
             THEN /\ referred_by' = IF stamp THEN [referred_by EXCEPT ![referee] = args[p].code]
                                    ELSE referred_by
                  /\ row_lock' = Release(p)
                  /\ result' = [result EXCEPT ![p] = "false"]
                  /\ pc' = [pc EXCEPT ![p] = "done"]
                  /\ UNCHANGED local
             ELSE /\ row_lock' = IF stamp THEN [row_lock EXCEPT ![referee] = p] ELSE row_lock
                  /\ local' = [local EXCEPT ![p].stamped = stamp]
                  /\ pc' = [pc EXCEPT ![p] = "rb_insert"]
                  /\ UNCHANGED <<referred_by, result>>
    /\ UNCHANGED <<auth_state, starter_credits_granted, referrals_count, count_increments, stripe_events,
                   subscriptions, users, credit_grants, credit_spends, now, args, bal>>

\* INSERT INTO credit_grants ... ON CONFLICT (source) DO NOTHING;
\* inserted = (cur.rowcount == 1); if inserted: UPDATE users SET referrals_count =
\* COALESCE(referrals_count,0) + 1 WHERE id = referrer; commit; return inserted.
\* The insert is seen by nobody before the commit, and a second insert of the
\* source waits for it, so the three take effect together, once the referrer's row
\* can be locked.  count_increments counts the increments made for a referee.
apply_referral_bonus_insert(p) ==
    /\ pc[p] = "rb_insert"
    /\ LET referee == local[p].referee_id
           referrer == local[p].referrer_id
           row == GrantRow(referrer, ReferralSource(referee), BONUS_PER_REFERRAL_CV,
                           BONUS_PER_REFERRAL_AI, NULL)
           after == InsertOnConflictDoNothing(credit_grants, row)
           inserted == Len(after) > Len(credit_grants)
       IN /\ inserted => RowLockFree(referrer, p)
          /\ credit_grants' = after
          /\ referrals_count' = [referrals_count EXCEPT ![referrer] = Incremented(@, inserted)]
          /\ count_increments' = IF inserted
                                 THEN [count_increments EXCEPT ![referee] = @ + 1]
                                 ELSE count_increments
          /\ referred_by' = IF local[p].stamped
                            THEN [referred_by EXCEPT ![referee] = args[p].code]
                            ELSE referred_by
          /\ local' = [local EXCEPT ![p].inserted = IF inserted THEN "true" ELSE "false"]
          /\ result' = [result EXCEPT ![p] = IF inserted THEN "true" ELSE "false"]
    /\ row_lock' = Release(p)
    /\ pc' = [pc EXCEPT ![p] = "done"]
    /\ UNCHANGED <<auth_state, starter_credits_granted, stripe_events, subscriptions, users, credit_spends,
                   now, args, bal>>

\* ------------------------------------------------------------ database failures

\* what a call left uncommitted is rolled back: its locks go, `faulted` records
\* that a statement of the call failed, and the call ends with outcome r.  A
\* process meets one failure at most.
Fails(p, r) ==
    /\ ~local[p].faulted
    /\ row_lock' = Release(p)
    /\ local' = [local EXCEPT ![p].faulted = TRUE]
    /\ result' = [result EXCEPT ![p] = r]
    /\ pc' = [pc EXCEPT ![p] = "done"]
    /\ UNCHANGED <<auth_state, starter_credits_granted, referred_by, referrals_count, count_increments,
                   stripe_events, subscriptions, users, credit_grants, credit_spends, now,
                   args, bal>>

\* mark_event_processed: the INSERT raises something other than the duplicate key;
\* except Exception: rollback, return False, and stripe_webhook answers
\* duplicate_ignored
mark_event_processed_fails(p) ==
    /\ pc[p] = "called"
    /\ args[p].fn = "stripe_webhook"
    /\ args[p].event # NULL
    /\ Fails(p, "duplicate_ignored")

\* insert_credit_grant: cur.execute raises; nothing catches it
insert_credit_grant_fails(p) ==
    /\ pc[p] = "called"
    /\ args[p].fn = "insert_credit_grant"
    /\ Fails(p, "error")

\* auth.grant_starter_credits: db_execute raises; except Exception: rollback,
\* print, return False
grant_starter_credits_fails(p) ==
    /\ pc[p] = "called"
    /\ args[p].fn = "grant_starter_credits"
    /\ Fails(p, "false")

\* auth.apply_referral_bonus: the INSERT (or the UPDATE after it) raises;
\* except Exception: rollback, print, return False
apply_referral_bonus_fails(p) ==
    /\ pc[p] = "rb_insert"
    /\ Fails(p, "false")

\* spend_credits: the INSERT raises; except Exception: conn.rollback(); raise
spend_credits_fails(p) ==
    /\ pc[p] = "read"
    /\ args[p].fn = "spend_credits"
    /\ Fails(p, "error")

\* stripe_webhook: stripe.Subscription.retrieve or upsert_subscription raises;
\* nothing catches it and the delivery is answered with an error
stripe_webhook_subscription_fails(p) ==
    /\ pc[p] = "wh_subscription"
    /\ args[p].subscription # NULL
    /\ Fails(p, "error")

\* stripe_webhook: insert_credit_grant raises; nothing catches it
stripe_webhook_grant_fails(p) ==
    /\ pc[p] = "wh_grant"
    /\ Fails(p, "error")

\* what a new delivery of an already delivered event resets
Redelivered(p) ==
    /\ pc' = [pc EXCEPT ![p] = "called"]
    /\ result' = [result EXCEPT ![p] = "none"]
    /\ local' = [local EXCEPT ![p] = [NoLocal EXCEPT !.faulted = local[p].faulted]]
    /\ UNCHANGED <<auth_state, starter_credits_granted, referred_by, referrals_count, count_increments,
                   stripe_events, subscriptions, users, credit_grants, credit_spends, now,
                   row_lock, args, bal>>

\* Stripe delivers an event again when the delivery was answered with an error
stripe_redelivers(p) ==
    /\ pc[p] = "done"
    /\ args[p].fn = "stripe_webhook"
    /\ result[p] = "error"
    /\ Redelivered(p)

\* an event answered as a duplicate is sent once more (a resend from the Stripe
\* dashboard, or Stripe going on regardless)
stripe_resends(p) ==
    /\ pc[p] = "done"
    /\ args[p].fn = "stripe_webhook"
    /\ result[p] = "duplicate_ignored"
    /\ Redelivered(p)

\* ------------------------------------------------------------ the spend system

\* the (cv, ai) amounts a spend call asks for
SpendAmounts == {<<1, 0>>, <<2, 1>>, <<0 - 1, 1>>}

\* what a grant call carries: amounts and expiry
GrantShapes == {<<2, 1, NULL>>, <<2, 1, {1}>>}

SpendCalls ==
    {[NoArgs EXCEPT !.fn = f, !.user = u, !.source = <<"spend", 0>>, !.cv = a[1], !.ai = a[2]] :
        f \in {"try_spend", "spend_credits"}, u \in {1, MissingUser}, a \in SpendAmounts}

GrantCalls(srcs) ==
    {[NoArgs EXCEPT !.fn = "insert_credit_grant", !.user = u, !.source = s,
                    !.cv = g[1], !.ai = g[2], !.expires = g[3]] :
        u \in {1}, s \in srcs, g \in GrantShapes}

SpendSystemCalls == SpendCalls \cup GrantCalls({<<"stripe_invoice", 1>>})

InitSpend == InitWith(SpendSystemCalls)

NextSpend ==
    \/ Tick
    \/ \E p \in Procs : try_spend_lock(p)
    \/ \E p \in Procs : try_spend_balance(p)
    \/ \E p \in Procs : try_spend_insert(p)
    \/ \E p \in Procs : spend_credits_lock(p)
    \/ \E p \in Procs : spend_credits_balance(p)
    \/ \E p \in Procs : spend_credits_insert(p)
    \/ \E p \in Procs : insert_credit_grant(p)

SpecSpend == InitSpend /\ [][NextSpend]_vars

Kinds == {"cv", "ai"}
SpendFns == {"try_spend", "spend_credits"}

RECURSIVE SumAllGrants(_, _, _, _)
\* the sum of a user's grants of a kind, expired or not, over the first n rows
SumAllGrants(rows, n, u, kind) ==
    IF n = 0 THEN 0
    ELSE SumAllGrants(rows, n - 1, u, kind)
         + (IF rows[n].user_id = u
            THEN (IF kind = "cv" THEN rows[n].cv_amount ELSE rows[n].ai_amount)
            ELSE 0)

Spent(u, k) == SumSpends(credit_spends, Len(credit_spends), u, k)
Granted(u, k) == SumAllGrants(credit_grants, Len(credit_grants), u, k)
GrantedUnexpired(u, k) == SumGrants(credit_grants, Len(credit_grants), u, k, now)

\* C1: under any interleaving of try_spend / spend_credits calls for one user, the
\* sum of the amounts of the successful spends of a kind never exceeds the sum of
\* that user's grants of that kind.
C1_SpendsWithinGrants ==
    \A u \in UserIds : \A k \in Kinds : Spent(u, k) <= Granted(u, k)

\* two spend calls for one user, each within the user's grants on its own, met:
\* one was recorded and the other refused
C1_Witness ==
    \E p \in Procs : \E q \in Procs \ {p} :
        /\ args[p].fn \in SpendFns /\ args[q].fn \in SpendFns
        /\ args[p].user = args[q].user
        /\ result[p] = "true" /\ result[q] = "false"
        /\ args[q].cv > 0 /\ args[q].cv <= Granted(args[q].user, "cv")
        /\ args[q].ai <= Granted(args[q].user, "ai")
        /\ Spent(args[p].user, "cv") = Granted(args[p].user, "cv")

\* C2 as stated: at all times, also after a grant's expires_at has passed, the
\* spends of a kind are within the unexpired grants of that kind.
C2_SpendsWithinUnexpiredGrants ==
    \A u \in UserIds : \A k \in Kinds : Spent(u, k) <= GrantedUnexpired(u, k)

\* the rows a call's source labels
RowsOf(p) == {i \in 1..Len(credit_spends) : credit_spends[i].source = args[p].source}

\* C4: a spend call returns True iff the user exists and both amounts are within
\* the balance it read; then exactly one credit_spends row carries both amounts,
\* and a call that returns False, or has not returned, has inserted no row.
C4_SpendOutcome ==
    \A p \in Procs : args[p].fn \in SpendFns =>
        /\ pc[p] = "done" =>
              (result[p] = "true" <=>
                  /\ args[p].user \in users
                  /\ args[p].cv <= bal[p].cv
                  /\ args[p].ai <= bal[p].ai)
        /\ result[p] = "true" =>
              /\ Cardinality(RowsOf(p)) = 1
              /\ \A i \in RowsOf(p) : credit_spends[i] = SpendRow(args[p])
        /\ result[p] # "true" => RowsOf(p) = {}

\* a spend of both kinds was recorded and a later call was refused for its AI
\* amount alone
C4_Witness ==
    /\ \E p \in Procs : args[p].fn \in SpendFns /\ result[p] = "true" /\ args[p].ai > 0
    /\ \E p \in Procs : /\ args[p].fn \in SpendFns /\ result[p] = "false"
                         /\ args[p].user \in users
                         /\ args[p].cv <= bal[p].cv /\ args[p].ai > bal[p].ai

\* ------------------------------------------------------------ the spend race

\* a user with one never-expiring grant of B credits of one kind, and every
\* process about to call try_spend for the same amount a of that kind
InitRace ==
    /\ users = Users
    /\ user_rows = RegisteredUsers
    /\ tokens_issued = 0
    /\ credit_spends = <<>>
    /\ now = 0
    /\ row_lock = [u \in UserIds |-> 0]
    /\ pc = [p \in Procs |-> "called"]
    /\ bal = [p \in Procs |-> NoBal]
    /\ result = [p \in Procs |-> "none"]
    /\ local = [p \in Procs |-> NoLocal]
    /\ starter_credits_granted = {}
    /\ referred_by = [u \in Users |-> 0]
    /\ referrals_count = [u \in Users |-> 0]
    /\ count_increments = [u \in UserIds |-> 0]
    /\ stripe_events = {}
    /\ subscriptions = [unique_id |-> TRUE, rows |-> <<>>]
    /\ \E B \in 0..MaxB, a \in 1..MaxAmt, k \in Kinds :
          /\ credit_grants =
                <<GrantRow(1, <<"starter_grant", 1>>,
                           IF k = "cv" THEN B ELSE 0, IF k = "ai" THEN B ELSE 0, NULL)>>
          /\ args = [p \in Procs |->
                       [NoArgs EXCEPT !.fn = "try_spend", !.user = 1, !.source = <<"spend", p>>,
                                      !.cv = IF k = "cv" THEN a ELSE 0,
                                      !.ai = IF k = "ai" THEN a ELSE 0]]

NextRace ==
    \/ \E p \in Procs : try_spend_lock(p)
    \/ \E p \in Procs : try_spend_balance(p)
    \/ \E p \in Procs : try_spend_insert(p)

SpecRace == InitRace /\ [][NextRace]_vars

RaceKind == IF args[1].cv > 0 THEN "cv" ELSE "ai"
RaceAmount == IF args[1].cv > 0 THEN args[1].cv ELSE args[1].ai
RaceTrue == {p \in Procs : result[p] = "true"}

\* C3: with a fixed starting balance B and N concurrent try_spend calls for the
\* same positive amount a, never more than floor(B / a) calls return True, no call
\* returns False while the balance left covers a, and once all have returned
\* exactly min(N, floor(B / a)) have returned True.
C3_ExactSuccessCount ==
    LET B == Granted(1, RaceKind)
        a == RaceAmount
    IN /\ Cardinality(RaceTrue) <= B \div a
       /\ \A p \in Procs : result[p] = "false" => B - Spent(1, RaceKind) < a
       /\ (\A p \in Procs : pc[p] = "done") =>
             Cardinality(RaceTrue) = Min(NProcs, B \div a)

\* all calls have returned, some True and some False
C3_Witness ==
    /\ \A p \in Procs : pc[p] = "done"
    /\ \E p \in Procs : result[p] = "true"
    /\ \E p \in Procs : result[p] = "false"
    /\ Cardinality(RaceTrue) = Granted(1, RaceKind) \div RaceAmount

\* ------------------------------------------------------------ the grant issuer alone

InvoiceSources == {<<"stripe_invoice", 1>>, <<"stripe_invoice", 2>>}

GrantSystemCalls ==
    {[NoArgs EXCEPT !.fn = "insert_credit_grant", !.user = u, !.source = s,
                    !.cv = g[1], !.ai = g[2], !.expires = g[3]] :
        u \in {1, 2}, s \in InvoiceSources, g \in GrantShapes \cup {<<1, 2, NULL>>}}

InitGrant == InitWith(GrantSystemCalls)

NextGrant ==
    \/ Tick
    \/ \E p \in Procs : insert_credit_grant(p)

SpecGrant == InitGrant /\ [][NextGrant]_vars

\* the insert_credit_grant calls with source s that have returned
GrantCallers(s) ==
    {p \in Procs : args[p].fn = "insert_credit_grant" /\ args[p].source = s /\ pc[p] = "done"}

RowsWithSource(s) == {i \in 1..Len(credit_grants) : credit_grants[i].source = s}

RECURSIVE SumGrantedByCalls(_, _, _)
\* what the calls 1..n that returned True granted user u in kind k and is unexpired
SumGrantedByCalls(n, u, k) ==
    IF n = 0 THEN 0
    ELSE SumGrantedByCalls(n - 1, u, k)
         + (IF /\ args[n].fn = "insert_credit_grant" /\ result[n] = "true"
               /\ args[n].user = u
               /\ (args[n].expires = NULL \/ \E e \in args[n].expires : e > now)
            THEN (IF k = "cv" THEN args[n].cv ELSE args[n].ai)
            ELSE 0)

\* C5: after any number of sequential or concurrent insert_credit_grant calls with
\* one source, exactly one credit_grants row has that source, exactly one call
\* returned True and the others False, and each user's balance counts the grant
\* of every call that returned True once and nothing else.
C5_GrantIdempotent ==
    /\ \A s \in InvoiceSources : GrantCallers(s) # {} =>
          /\ Cardinality(RowsWithSource(s)) = 1
          /\ Cardinality({p \in GrantCallers(s) : result[p] = "true"}) = 1
          /\ \A p \in GrantCallers(s) :
                /\ result[p] \in {"true", "false"}
                /\ result[p] = "true" =>
                      \A i \in RowsWithSource(s) :
                          credit_grants[i] = GrantRow(args[p].user, s, args[p].cv, args[p].ai, args[p].expires)
    /\ \A u \in Users :
          get_credits_by_user_id(u) =
              [cv |-> Max(SumGrantedByCalls(NProcs, u, "cv") - Spent(u, "cv"), 0),
               ai |-> Max(SumGrantedByCalls(NProcs, u, "ai") - Spent(u, "ai"), 0)]

\* three calls with one source have returned, and the balance is that of one grant
C5_Witness ==
    \E s \in InvoiceSources :
        /\ Cardinality(GrantCallers(s)) >= 3
        /\ \E p \in GrantCallers(s) :
              /\ result[p] = "true"
              /\ get_credits_by_user_id(args[p].user) = [cv |-> args[p].cv, ai |-> args[p].ai]

\* ------------------------------------------------------------ every grant path

GrantPathCalls ==
    {[NoArgs EXCEPT !.fn = f, !.user = u] :
        f \in {"grant_starter_credits", "grant_starter_credits_once"}, u \in Users}
    \cup {[NoArgs EXCEPT !.fn = "insert_credit_grant", !.user = u, !.source = s,
                         !.cv = g[1], !.ai = g[2], !.expires = g[3]] :
            u \in Users, s \in {<<"stripe_invoice", 1>>, <<"starter_grant", 1>>}, g \in GrantShapes}

InitPaths == InitWith(GrantPathCalls)

NextPaths ==
    \/ Tick
    \/ \E p \in Procs : insert_credit_grant(p)
    \/ \E p \in Procs : grant_starter_credits(p)
    \/ \E p \in Procs : grant_starter_credits_once_read(p)
    \/ \E p \in Procs : grant_starter_credits_once_insert(p)

SpecPaths == InitPaths /\ [][NextPaths]_vars

WebhookEvents ==
    {[NoArgs EXCEPT !.fn = "stripe_webhook", !.event = {1}, !.typ = "invoice.paid",
                    !.source = <<"invoice", 1>>, !.plan = "price_monthly", !.user = 1,
                    !.subscription = {1}],
     [NoArgs EXCEPT !.fn = "stripe_webhook", !.event = {2}, !.typ = "invoice.payment_succeeded",
                    !.source = <<"invoice", 1>>, !.plan = "price_monthly", !.user = 1,
                    !.subscription = {1}],
     [NoArgs EXCEPT !.fn = "stripe_webhook", !.event = {3}, !.typ = "invoice.paid",
                    !.source = <<"invoice", 2>>, !.plan = "price_pro", !.user = 2],
     [NoArgs EXCEPT !.fn = "stripe_webhook", !.event = {4}, !.typ = "invoice.paid",
                    !.source = <<"invoice", 3>>, !.plan = "price_other", !.user = 1],
     [NoArgs EXCEPT !.fn = "stripe_webhook", !.event = {5}, !.typ = "invoice.paid",
                    !.source = <<"invoice", 4>>, !.plan = "price_monthly", !.user = MissingUser],
     [NoArgs EXCEPT !.fn = "stripe_webhook", !.event = {6}, !.typ = "customer.subscription.updated",
                    !.source = <<"subscription", 1>>, !.user = 1]}

\* user 1's ledger before the deliveries: nothing, or last period's invoice grant
\* (expiring at that period's end) and one CV spent from it
InitWebhook ==
    \/ InitState(WebhookEvents, <<>>, <<>>, 0)
    \/ InitState(WebhookEvents,
                 <<GrantRow(1, <<"stripe_invoice", 0>>, 20, 30, {1})>>,
                 <<[user_id |-> 1, source |-> <<"spend", 0>>, cv_amount |-> 1, ai_amount |-> 0]>>, 0)

NextWebhook ==
    \/ Tick
    \/ \E p \in Procs : stripe_webhook_receive(p)
    \/ \E p \in Procs : stripe_webhook_find_user(p)
    \/ \E p \in Procs : stripe_webhook_subscription(p)
    \/ \E p \in Procs : stripe_webhook_grant(p)

SpecWebhook == InitWebhook /\ [][NextWebhook]_vars

EventIds == UNION {e.event : e \in WebhookEvents}
Deliveries(e) == {p \in Procs : args[p].fn = "stripe_webhook" /\ args[p].event = {e}}

\* C7: for any event id the first mark_event_processed call returns True and every
\* later one False, so of all deliveries of one event exactly one gets past the
\* check, the others answer duplicate_ignored, and at most one inserts a grant.
C7_WebhookDedup ==
    \A e \in EventIds :
        LET seen == {p \in Deliveries(e) : local[p].marked # "none"}
        IN /\ seen # {} => Cardinality({p \in seen : local[p].marked = "true"}) = 1
           /\ seen # {} <=> e \in stripe_events
           /\ \A p \in seen : local[p].marked = "false" =>
                  result[p] = "duplicate_ignored" /\ local[p].inserted = "none"
           /\ Cardinality({p \in Deliveries(e) : local[p].inserted = "true"}) <= 1

\* an event was delivered three times: one delivery inserted its grant, the
\* others were ignored as duplicates
C7_Witness ==
    \E e \in EventIds :
        /\ Cardinality(Deliveries(e)) >= 3
        /\ \A p \in Deliveries(e) : pc[p] = "done"
        /\ \E p \in Deliveries(e) : local[p].inserted = "true"
        /\ Cardinality({p \in Deliveries(e) : result[p] = "duplicate_ignored"}) >= 2

\* the grants table without the rows of source s
WithoutSource(rows, s) == SelectSeq(rows, LAMBDA g : g.source # s)

\* C8 as stated: once a paid invoice of a known user and price has been handled,
\* by however many events, exactly one credit_grants row has the invoice's source
\* and, while that grant runs, the user's balance is what it would be without the
\* invoice plus the plan's amounts.
C8_OneGrantPerInvoice ==
    \A p \in Procs :
        (args[p].fn = "stripe_webhook" /\ args[p].typ \in InvoiceTypes
         /\ result[p] = "ok") =>
            LET s == InvoiceSource(args[p])
                u == local[p].user_id
                amt == credits_for_plan(plan_from_price(args[p].plan))
                without == LedgerBalance(WithoutSource(credit_grants, s), credit_spends, u, now)
            IN /\ Cardinality(RowsWithSource(s)) = 1
               /\ (\A i \in RowsWithSource(s) : Unexpired(credit_grants[i], now)) =>
                     get_credits_by_user_id(u) =
                         [cv |-> without.cv + amt[1], ai |-> without.ai + amt[2]]

\* ------------------------------------------------------------ referral calls

\* signups with user 1's code by every user, by an unknown email and with no
\* email, and one with a code nobody has and one with no code
ReferralCalls ==
    {[NoArgs EXCEPT !.fn = "apply_referral_bonus", !.user = u, !.code = 1] :
        u \in UserIds \cup {0}}
    \cup {[NoArgs EXCEPT !.fn = "apply_referral_bonus", !.user = 2, !.code = c] :
            c \in {0, MissingUser}}

\* user 1 has made no referral yet, or is one short of the cap
InitReferral ==
    \E n \in {0, REFERRAL_CAP - 1} :
        InitState(ReferralCalls, PriorReferralGrants(1, n), <<>>, n)

NextReferral ==
    \/ \E p \in Procs : apply_referral_bonus_referee(p)
    \/ \E p \in Procs : apply_referral_bonus_referrer(p)
    \/ \E p \in Procs : apply_referral_bonus_stamp(p)
    \/ \E p \in Procs : apply_referral_bonus_insert(p)

SpecReferral == InitReferral /\ [][NextReferral]_vars

ReferralCallers(r) ==
    {p \in Procs : args[p].fn = "apply_referral_bonus" /\ args[p].user = r}

\* C9: however many apply_referral_bonus calls are made for one referee, one after
\* another or at once, at most one credit_grants row has the source
\* referral_bonus:<referee>, the referrer's referrals_count was incremented for
\* that referee as often as there is such a row (so never twice), and exactly the
\* call that inserted the row returned True.
C9_ReferralExactlyOnce ==
    \A r \in UserIds :
        /\ Cardinality(RowsWithSource(ReferralSource(r))) <= 1
        /\ count_increments[r] = Cardinality(RowsWithSource(ReferralSource(r)))
        /\ Cardinality({p \in ReferralCallers(r) : result[p] = "true"})
              = Cardinality(RowsWithSource(ReferralSource(r)))

\* three calls for the same referee have returned: one paid the referrer, whose
\* count went up by one, and the other two paid nothing
C9_Witness ==
    \E r \in Users :
        /\ Cardinality(ReferralCallers(r)) >= 3
        /\ \A p \in ReferralCallers(r) : pc[p] = "done"
        /\ Cardinality({p \in ReferralCallers(r) : result[p] = "true"}) = 1
        /\ Cardinality({p \in ReferralCallers(r) : local[p].inserted = "false"}) >= 2
        /\ count_increments[r] = 1

\* the referral grants a user owns
ReferralGrantsOf(u) ==
    {i \in 1..Len(credit_grants) :
        credit_grants[i].user_id = u /\ credit_grants[i].source[1] = "referral_bonus"}

\* C11 as stated: under every interleaving of apply_referral_bonus calls for
\* different referees of one referrer, the referral grants the referrer owns and
\* the referrer's referrals_count never exceed REFERRAL_CAP.
C11_ReferralCapConcurrent ==
    \A u \in Users :
        /\ Cardinality(ReferralGrantsOf(u)) <= REFERRAL_CAP
        /\ referrals_count[u] <= REFERRAL_CAP

\* ------------------------------------------------------------ referral calls, one at a time

\* no other process is inside a call
Alone(p) == \A q \in Procs \ {p} : pc[q] \in {"called", "done"}

\* user 1 is two short of the cap, one short of it, or at it
InitReferralSeq ==
    \E n \in {REFERRAL_CAP - 2, REFERRAL_CAP - 1, REFERRAL_CAP} :
        InitState(ReferralCalls, PriorReferralGrants(1, n), <<>>, n)

NextReferralSeq ==
    \/ \E p \in Procs : Alone(p) /\ apply_referral_bonus_referee(p)
    \/ \E p \in Procs : Alone(p) /\ apply_referral_bonus_referrer(p)
    \/ \E p \in Procs : Alone(p) /\ apply_referral_bonus_stamp(p)
    \/ \E p \in Procs : Alone(p) /\ apply_referral_bonus_insert(p)

SpecReferralSeq == InitReferralSeq /\ [][NextReferralSeq]_vars

\* the referee of call p had no referral grant when the call was made: the call
\* inserted it, or there is none even now
NewReferee(p) ==
    \/ local[p].inserted = "true"
    \/ RowsWithSource(ReferralSource(args[p].user)) = {}

\* C10: calls being made one at a time, a call for an existing new referee with an
\* existing referrer's code returns False and inserts no grant if the referrer's
\* referrals_count was REFERRAL_CAP when it was made; if the count was
\* REFERRAL_CAP - 1 it returns True, there is exactly one grant for the referee,
\* owned by the referrer, and referrals_count is REFERRAL_CAP.
C10_ReferralCapSequential ==
    \A p \in Procs :
        (/\ args[p].fn = "apply_referral_bonus" /\ pc[p] = "done"
         /\ args[p].user \in users /\ ReferrerOf(args[p].code) \in users
         /\ NewReferee(p)) =>
            LET rows == RowsWithSource(ReferralSource(args[p].user))
                referrer == ReferrerOf(args[p].code)
            IN /\ local[p].count_before = REFERRAL_CAP =>
                     /\ result[p] = "false"
                     /\ rows = {}
                     /\ Len(credit_grants) = REFERRAL_CAP
                     /\ referrals_count[referrer] = REFERRAL_CAP
               /\ local[p].count_before = REFERRAL_CAP - 1 =>
                     /\ result[p] = "true"
                     /\ Cardinality(rows) = 1
                     /\ \A i \in rows : credit_grants[i].user_id = referrer
                     /\ Len(credit_grants) = REFERRAL_CAP
                     /\ referrals_count[referrer] = REFERRAL_CAP

\* both cases have happened: a call made at REFERRAL_CAP - 1 returned True and a
\* call for another new referee, made at REFERRAL_CAP, returned False
C10_Witness ==
    \E p \in Procs : \E q \in Procs :
        /\ pc[p] = "done" /\ pc[q] = "done"
        /\ args[p].user \in users /\ args[q].user \in users /\ args[p].user # args[q].user
        /\ args[p].code = 1 /\ args[q].code = 1
        /\ local[p].count_before = REFERRAL_CAP - 1 /\ result[p] = "true"
        /\ local[q].count_before = REFERRAL_CAP /\ result[q] = "false"
        /\ NewReferee(q)
        /\ referrals_count[1] = REFERRAL_CAP

\* ------------------------------------------------------------ starter grants

StarterCalls ==
    {[NoArgs EXCEPT !.fn = "grant_starter_credits", !.user = u] : u \in UserIds}

InitStarter == InitWith(StarterCalls)

NextStarter ==
    \/ Tick
    \/ \E p \in Procs : grant_starter_credits(p)

SpecStarter == InitStarter /\ [][NextStarter]_vars

StarterCallers(u) ==
    {p \in Procs : args[p].fn = "grant_starter_credits" /\ args[p].user = u /\ pc[p] = "done"}

\* the starter grants a user owns
StarterGrantsOf(u) ==
    {i \in 1..Len(credit_grants) :
        credit_grants[i].user_id = u /\ credit_grants[i].source[1] = "starter_grant"}

\* C13: once auth.grant_starter_credits has been called for a user, however often
\* and however concurrently, the user owns exactly one starter grant, it has the
\* source starter_grant:<user_id>, 5 CV and 5 AI and no expiry, exactly one of the
\* calls returned True and the others False.
C13_OneStarterGrant ==
    \A u \in Users :
        StarterCallers(u) # {} =>
            /\ Cardinality(StarterGrantsOf(u)) = 1
            /\ \A i \in StarterGrantsOf(u) :
                  credit_grants[i] = GrantRow(u, <<"starter_grant", u>>, 5, 5, NULL)
            /\ Cardinality({p \in StarterCallers(u) : result[p] = "true"}) = 1
            /\ \A p \in StarterCallers(u) : result[p] \in {"true", "false"}
            /\ get_credits_by_user_id(u) = [cv |-> 5, ai |-> 5]

\* three calls for one user have returned, one of them True and two False
C13_Witness ==
    \E u \in Users :
        /\ Cardinality(StarterCallers(u)) >= 3
        /\ Cardinality({p \in StarterCallers(u) : result[p] = "false"}) >= 2
        /\ Cardinality(StarterGrantsOf(u)) = 1

\* ------------------------------------------------------------ calls that meet a database failure

FaultCalls ==
    {e \in WebhookEvents : e.event = {1}}
    \cup GrantCalls({<<"stripe_invoice", 1>>})
    \cup {[NoArgs EXCEPT !.fn = "grant_starter_credits", !.user = 1],
          [NoArgs EXCEPT !.fn = "apply_referral_bonus", !.user = 2, !.code = 1],
          [NoArgs EXCEPT !.fn = "spend_credits", !.user = 1, !.cv = 1]}

InitFaults == InitWith(FaultCalls)

NextFaults ==
    \/ \E p \in Procs : stripe_webhook_receive(p)
    \/ \E p \in Procs : stripe_webhook_find_user(p)
    \/ \E p \in Procs : stripe_webhook_subscription(p)
    \/ \E p \in Procs : stripe_webhook_grant(p)
    \/ \E p \in Procs : insert_credit_grant(p)
    \/ \E p \in Procs : grant_starter_credits(p)
    \/ \E p \in Procs : apply_referral_bonus_referee(p)
    \/ \E p \in Procs : apply_referral_bonus_referrer(p)
    \/ \E p \in Procs : apply_referral_bonus_stamp(p)
    \/ \E p \in Procs : apply_referral_bonus_insert(p)
    \/ \E p \in Procs : spend_credits_lock(p)
    \/ \E p \in Procs : spend_credits_balance(p)
    \/ \E p \in Procs : spend_credits_insert(p)
    \/ \E p \in Procs : mark_event_processed_fails(p)
    \/ \E p \in Procs : insert_credit_grant_fails(p)
    \/ \E p \in Procs : grant_starter_credits_fails(p)
    \/ \E p \in Procs : apply_referral_bonus_fails(p)
    \/ \E p \in Procs : spend_credits_fails(p)

SpecFaults == InitFaults /\ [][NextFaults]_vars

\* C14 as stated: a call of mark_event_processed (made by stripe_webhook),
\* insert_credit_grant, auth.grant_starter_credits, auth.apply_referral_bonus or
\* spend_credits in which a database statement failed ends with the error raised
\* to its caller, never with an ordinary value.
C14_NoSwallowedError ==
    \A p \in Procs : local[p].faulted => result[p] = "error"

\* ------------------------------------------------------------ the subscription mirror

\* what Stripe reports of a subscription: plan, status, period end, cancel flag
SubscriptionStates ==
    {<<"monthly", "active", {1}, FALSE>>, <<"pro", "active", {1}, FALSE>>,
     <<"pro", "canceled", NULL, TRUE>>}

UpsertCalls ==
    {[NoArgs EXCEPT !.fn = "upsert_subscription", !.user = u, !.customer = {u},
                    !.subscription = sid, !.plan = v[1], !.status = v[2], !.expires = v[3],
                    !.cancel = v[4]] :
        u \in {1, 2}, sid \in {NULL, {1}, {2}}, v \in SubscriptionStates}

\* the table as the repository creates it, without an index on
\* stripe_subscription_id, or with one added to the database
InitSubscriptions ==
    \E unique_id \in BOOLEAN : InitTables({NoArgs}, <<>>, <<>>, 0, unique_id)

NextSubscriptions ==
    \/ session_call(1, UpsertCalls)
    \/ upsert_subscription_call(1)

SpecSubscriptions == InitSubscriptions /\ [][NextSubscriptions]_vars

\* the subscriptions rows with an id
SubscriptionRows(sid) ==
    {i \in 1..Len(subscriptions.rows) : subscriptions.rows[i].stripe_subscription_id = sid}

\* C15 as stated: after any sequence of upsert_subscription calls no subscription
\* id has two rows, and the call made last, if it named an id, has returned
\* without an error and the one row of that id carries its user, customer, plan,
\* status, period end and cancel flag.
C15_UpsertLastWriteWins ==
    /\ \A i \in 1..Len(subscriptions.rows) : \A j \in 1..Len(subscriptions.rows) :
          subscriptions.rows[i].stripe_subscription_id
              = subscriptions.rows[j].stripe_subscription_id => i = j
    /\ \A p \in Procs :
          (args[p].fn = "upsert_subscription" /\ pc[p] = "done"
           /\ args[p].subscription # NULL) =>
              /\ result[p] = "returned"
              /\ \A sid \in args[p].subscription :
                    /\ Cardinality(SubscriptionRows(sid)) = 1
                    /\ \A i \in SubscriptionRows(sid) :
                          subscriptions.rows[i] =
                              [user_id |-> args[p].user,
                               stripe_customer_id |-> args[p].customer,
                               stripe_subscription_id |-> sid, plan |-> args[p].plan,
                               status |-> args[p].status,
                               current_period_end |-> args[p].expires,
                               cancel_at_period_end |-> args[p].cancel]

\* ------------------------------------------------------------ deliveries that fail and are repeated

\* invoice events of known users and prices
DeliveryEvents == {e \in WebhookEvents : e.event \subseteq {1, 2, 3}}

InitDelivery == InitWith(DeliveryEvents)

\* a step of the handler that no failure interrupts
HandlerStep(p) ==
    \/ stripe_webhook_receive(p)
    \/ stripe_webhook_find_user(p)
    \/ stripe_webhook_subscription(p)
    \/ stripe_webhook_grant(p)

NextDelivery ==
    \/ \E p \in Procs : stripe_webhook_receive(p)
    \/ \E p \in Procs : stripe_webhook_find_user(p)
    \/ \E p \in Procs : stripe_webhook_subscription(p)
    \/ \E p \in Procs : stripe_webhook_grant(p)
    \/ \E p \in Procs : mark_event_processed_fails(p)
    \/ \E p \in Procs : stripe_webhook_subscription_fails(p)
    \/ \E p \in Procs : stripe_webhook_grant_fails(p)
    \/ \E p \in Procs : stripe_redelivers(p)

SpecDelivery == InitDelivery /\ [][NextDelivery]_vars

\* a delivery is past the event check, or has written
ActsOn(p) ==
    /\ args[p].fn = "stripe_webhook"
    /\ \/ pc[p] \in {"wh_find_user", "wh_subscription", "wh_grant"}
       \/ local[p].inserted # "none"
       \/ local[p].period_end # NULL

C16_Recorded ==
    \A p \in Procs : ActsOn(p) => args[p].event # NULL /\ args[p].event \subseteq stripe_events

C16_Step ==
    /\ \A p \in Procs :
          (/\ args[p].fn = "stripe_webhook" /\ pc'[p] # pc[p]
           /\ (credit_grants' # credit_grants \/ subscriptions' # subscriptions)) =>
              args[p].event # NULL /\ args[p].event \subseteq stripe_events
    /\ stripe_events' # stripe_events =>
          \E p \in Procs :
              /\ pc[p] = "called" /\ pc'[p] # "called"
              /\ args[p].event \cap stripe_events = {}
              /\ stripe_events' = stripe_events \cup args[p].event
    /\ \A p \in Procs :
          (args[p].fn = "stripe_webhook" /\ pc[p] = "called"
           /\ pc'[p] \in {"wh_find_user", "wh_subscription", "wh_grant"}) =>
              /\ args[p].event \cap stripe_events = {}
              /\ args[p].event \subseteq stripe_events'

\* C16: a delivery that is handled has its event id in stripe_events from its
\* first database step on: every step that inserts into credit_grants or upserts
\* subscriptions for an event starts with the id recorded, the id is recorded by
\* one insert that succeeds only if the id is new, and only the delivery whose
\* insert succeeded goes on.
C16_RecordedBeforeMutation == []C16_Recorded /\ [][C16_Step]_vars

\* a delivery failed after its event was recorded and before its grant, and
\* another delivery recorded its event, upserted the subscription and inserted
\* the grant
C16_Witness ==
    \E p \in Procs : \E q \in Procs :
        /\ p # q
        /\ pc[p] = "done" /\ local[p].inserted = "true" /\ local[p].period_end # NULL
        /\ args[p].event \subseteq stripe_events
        /\ Len(subscriptions.rows) >= 1
        /\ result[q] = "error" /\ local[q].marked = "true"

\* a delivery that was begun is handled to its answer, and Stripe goes on
\* redelivering an event whose delivery was answered with an error
NextRedelivery ==
    \/ NextDelivery
    \/ \E p \in Procs : stripe_resends(p)

SpecRedelivery ==
    /\ InitDelivery
    /\ [][NextRedelivery]_vars
    /\ \A p \in Procs : WF_vars(HandlerStep(p))
    /\ \A p \in Procs : WF_vars(stripe_redelivers(p))
    /\ \A p \in Procs : WF_vars(stripe_resends(p))

\* the handling of p's event failed after the event id was recorded
FailedAfterRecorded(p) ==
    /\ args[p].fn = "stripe_webhook"
    /\ result[p] = "error"
    /\ local[p].marked = "true"

\* C17 as stated: when the handling of an invoice event of a known user and price
\* fails after the event id was recorded, and Stripe keeps redelivering the
\* event, the grant stripe_invoice:<invoice_id> is eventually inserted.
C17_RedeliveryGrants ==
    \A p \in Procs :
        FailedAfterRecorded(p) ~> SourceExists(credit_grants, InvoiceSource(args[p]))

\* ------------------------------------------------------------ one session, call after call

\* the session's calls: grants for two invoices, spends, and balance reads of a
\* user with rows, a user without and an id no user has
SessionCalls ==
    GrantCalls({<<"stripe_invoice", 1>>, <<"stripe_invoice", 2>>})
    \cup {[NoArgs EXCEPT !.fn = "try_spend", !.user = 1, !.cv = a[1], !.ai = a[2]] :
            a \in {<<1, 0>>, <<2, 1>>}}
    \cup {[NoArgs EXCEPT !.fn = f, !.user = u] : f \in BalanceFns, u \in {1, 2, MissingUser}}

InitSession == InitWith({NoArgs})

NextSession ==
    \/ TickIdle
    \/ session_call(1, SessionCalls)
    \/ try_spend_lock(1)
    \/ try_spend_balance(1)
    \/ try_spend_insert(1)
    \/ insert_credit_grant(1)
    \/ get_balance(1)

SpecSession == InitSession /\ [][NextSession]_vars

RECURSIVE HandSum(_, _)
\* the sum of f over the index set S
HandSum(S, f) ==
    IF S = {} THEN 0
    ELSE LET i == CHOOSE j \in S : TRUE IN f[i] + HandSum(S \ {i}, f)

\* the balance of user u at time t worked out by hand from the first lg grants and
\* the first ls spends: grants of u that never expire or expire after t, minus
\* all spends of u, not below zero
HandBalance(u, lg, ls, t) ==
    LET live == {i \in 1..lg : /\ credit_grants[i].user_id = u
                               /\ \A e \in credit_grants[i].expires_at : t < e}
        mine == {i \in 1..ls : credit_spends[i].user_id = u}
        cv == HandSum(live, [i \in 1..lg |-> credit_grants[i].cv_amount])
              - HandSum(mine, [i \in 1..ls |-> credit_spends[i].cv_amount])
        ai == HandSum(live, [i \in 1..lg |-> credit_grants[i].ai_amount])
              - HandSum(mine, [i \in 1..ls |-> credit_spends[i].ai_amount])
    IN [cv |-> IF cv < 0 THEN 0 ELSE cv, ai |-> IF ai < 0 THEN 0 ELSE ai]

\* the balance of user u worked out by hand from the ledger as it is now
HandNow(u) == HandBalance(u, Len(credit_grants), Len(credit_spends), now)

\* what the last balance read returned, nothing having changed since
C12_Reads ==
    \A p \in Procs :
        local[p].seen # <<>> =>
            LET u == local[p].seen[1]
            IN /\ local[p].last_bal = HandNow(u)
               /\ pc[p] = "done" => bal[p] = local[p].last_bal
               /\ (/\ \A i \in 1..Len(credit_grants) : credit_grants[i].user_id # u
                   /\ \A i \in 1..Len(credit_spends) : credit_spends[i].user_id # u)
                     => local[p].last_bal = [cv |-> 0, ai |-> 0]

\* a balance read leaves every table as it was and, made again with nothing
\* changed, returns what it returned before
C12_ReadStep ==
    \A p \in Procs :
        (pc[p] = "called" /\ args[p].fn \in BalanceFns /\ pc'[p] = "done") =>
            /\ UNCHANGED <<users, credit_grants, credit_spends, starter_credits_granted,
                           referred_by, referrals_count, stripe_events, subscriptions>>
            /\ (local[p].seen # <<>> /\ local[p].seen[1] = args[p].user)
                  => bal'[p] = local[p].last_bal

\* C12: after every sequence of grants, with and without expiry, and spends, a
\* balance read (get_credits_by_user_id, get_user_credits_ledger) returns for each
\* kind max(0, the user's grants that have no expiry or expire later than now,
\* minus all the user's spends); it returns 0 / 0 for a user without rows, two
\* reads with no write and no tick between them return the same, and a read
\* writes nothing.
C12_BalanceFormula == []C12_Reads /\ [][C12_ReadStep]_vars

\* user 1 holds an expired grant and a running one and has spent; two reads in a
\* row returned the same positive balance
C12_Witness ==
    \E p \in Procs :
        /\ local[p].seen = <<1, 2>>
        /\ \E i \in 1..Len(credit_grants) :
              /\ credit_grants[i].user_id = 1
              /\ \E e \in credit_grants[i].expires_at : e <= now
        /\ \E i \in 1..Len(credit_grants) :
              /\ credit_grants[i].user_id = 1
              /\ credit_grants[i].expires_at = NULL
        /\ Len(credit_spends) >= 1
        /\ local[p].last_bal.cv > 0
        /\ HandNow(1) # [cv |-> Granted(1, "cv") - Spent(1, "cv"),
                         ai |-> Granted(1, "ai") - Spent(1, "ai")]

\* an insert_credit_grant call that inserts a row not yet expired raises the
\* user's balance by the row's amounts
C19_Insert ==
    \A p \in Procs :
        (/\ pc[p] = "called" /\ args[p].fn = "insert_credit_grant" /\ pc'[p] = "done"
         /\ result'[p] = "true"
         /\ \A e \in args[p].expires : now < e) =>
            LET u == args[p].user
                before == LedgerBalance(credit_grants, credit_spends, u, now)
                after == LedgerBalance(credit_grants', credit_spends', u, now')
            IN after = [cv |-> before.cv + args[p].cv, ai |-> before.ai + args[p].ai]

\* C19: inserting a new unexpired grant of (c CV, a AI) for a user raises that
\* user's balance by exactly c and a, whatever the user's earlier grants, grant
\* expiries and spends, also when an earlier grant that was partly or fully
\* spent has expired and a renewal grant arrives.
C19_GrantRaisesBalance == [][C19_Insert]_vars

\* ------------------------------------------------------------ spending a starter grant

\* what a generation costs: a CV, an AI call, both
StarterSpendAmounts == {<<1, 0>>, <<0, 1>>, <<1, 1>>}

\* try_spend(uid, source=..., cv=..., ai=...) as the pages call it for the user
\* who is logged in
StarterSpendCalls ==
    {[NoArgs EXCEPT !.fn = "try_spend", !.user = 1, !.cv = a[1], !.ai = a[2]] :
        a \in StarterSpendAmounts}

\* users 1 and 2 hold the starter grant, nothing else and nothing spent
StarterGrants ==
    [u \in 1..2 |-> GrantRow(u, <<"starter_grant", u>>, STARTER_CV, STARTER_AI, NULL)]

InitStarterSpend == InitState({NoArgs}, StarterGrants, <<>>, 0)

NextStarterSpend ==
    \/ Tick
    \/ session_call(1, StarterSpendCalls)
    \/ try_spend_lock(1)
    \/ try_spend_balance(1)
    \/ try_spend_insert(1)

SpecStarterSpend == InitStarterSpend /\ [][NextStarterSpend]_vars

\* the starter grant less what user 1 has spent; a call is refused if and only
\* if it asked for more than the balance it read, which is the balance it leaves
C20_Balances ==
    /\ get_credits_by_user_id(1) = [cv |-> STARTER_CV - Spent(1, "cv"),
                                    ai |-> STARTER_AI - Spent(1, "ai")]
    /\ get_credits_by_user_id(2) = [cv |-> STARTER_CV, ai |-> STARTER_AI]
    /\ \A p \in Procs :
          (pc[p] = "done" /\ args[p].fn = "try_spend") =>
              /\ result[p] = "false" <=> (args[p].cv > bal[p].cv \/ args[p].ai > bal[p].ai)
              /\ result[p] = "false" => bal[p] = get_credits_by_user_id(1)

\* the return of a try_spend call: True has taken exactly the amounts from the
\* user's balance and added one row, False has changed nothing; no other
\* balance and no other table differs
C20_Return ==
    \A p \in Procs :
        (pc[p] = "read" /\ args[p].fn = "try_spend" /\ pc'[p] = "done") =>
            LET u == args[p].user
                before == LedgerBalance(credit_grants, credit_spends, u, now)
                after == LedgerBalance(credit_grants', credit_spends', u, now')
            IN /\ result'[p] \in {"true", "false"}
               /\ result'[p] = "true" =>
                     /\ after = [cv |-> before.cv - args[p].cv, ai |-> before.ai - args[p].ai]
                     /\ credit_spends' = Append(credit_spends,
                                                [user_id |-> u, source |-> args[p].source,
                                                 cv_amount |-> args[p].cv,
                                                 ai_amount |-> args[p].ai])
               /\ result'[p] = "false" => (after = before /\ credit_spends' = credit_spends)
               /\ \A v \in UserIds \ {u} :
                     LedgerBalance(credit_grants', credit_spends', v, now')
                         = LedgerBalance(credit_grants, credit_spends, v, now)
               /\ UNCHANGED <<users, credit_grants, starter_credits_granted, referred_by,
                              referrals_count, stripe_events, subscriptions>>

\* C20: a try_spend(user, cv = c, ai = a) that returns True lowers the user's CV
\* balance by exactly c and the AI balance by exactly a and changes nothing else;
\* from one grant of 5 CV / 5 AI the balance is always 5 less the amounts spent,
\* so five calls with cv = 1 leave 4, 3, 2, 1, 0 and a sixth returns False and
\* leaves {cv: 0, ai: 5}.
C20_SpendLowersExactly == []C20_Balances /\ [][C20_Return]_vars

\* five calls with cv = 1 were recorded, the sixth was refused, the balance is
\* {cv: 0, ai: 5}
C20_Witness ==
    /\ Len(credit_spends) = STARTER_CV
    /\ \A i \in 1..Len(credit_spends) :
          /\ credit_spends[i].user_id = 1
          /\ credit_spends[i].cv_amount = 1
          /\ credit_spends[i].ai_amount = 0
    /\ pc[1] = "done" /\ args[1].fn = "try_spend" /\ args[1].cv = 1 /\ args[1].ai = 0
    /\ result[1] = "false"
    /\ get_credits_by_user_id(1) = [cv |-> 0, ai |-> STARTER_AI]

\* ------------------------------------------------------------ a first subscription purchase

\* what Stripe sends for user 1's purchase of the monthly plan: the checkout
\* session's completion (metadata.pack = monthly) and, for the purchase's first
\* invoice, invoice.paid and invoice.payment_succeeded
PurchaseEvents ==
    {[NoArgs EXCEPT !.fn = "stripe_webhook", !.event = {1}, !.typ = "checkout.session.completed",
                    !.source = <<"checkout", 1>>, !.plan = "monthly", !.user = 1,
                    !.subscription = {1}, !.customer = {1}],
     [NoArgs EXCEPT !.fn = "stripe_webhook", !.event = {2}, !.typ = "invoice.paid",
                    !.source = <<"invoice", 1>>, !.plan = "price_monthly", !.user = 1,
                    !.subscription = {1}, !.customer = {1}],
     [NoArgs EXCEPT !.fn = "stripe_webhook", !.event = {3}, !.typ = "invoice.payment_succeeded",
                    !.source = <<"invoice", 1>>, !.plan = "price_monthly", !.user = 1,
                    !.subscription = {1}, !.customer = {1}]}

\* the users hold their starter grants; the subscriptions table is the one the
\* application creates (no unique index) or one that was given the index
InitPurchase == \E unique_id \in BOOLEAN : InitTables(PurchaseEvents, StarterGrants, <<>>, 0, unique_id)

NextPurchase ==
    \/ \E p \in Procs : stripe_webhook_receive(p)
    \/ \E p \in Procs : stripe_webhook_find_user(p)
    \/ \E p \in Procs : stripe_webhook_subscription(p)
    \/ \E p \in Procs : stripe_webhook_grant(p)
    \/ \E p \in Procs : stripe_redelivers(p)

SpecPurchase == InitPurchase /\ [][NextPurchase]_vars

\* the types among the events whose deliveries Stripe has had answered for good
Answered == {args[p].typ : p \in {q \in Procs : pc[q] = "done" /\ result[q] # "error"}}

\* C18: one subscription payment grants its credits once: when the first
\* purchase was reported with a checkout.session.completed event and an
\* invoice.paid or invoice.payment_succeeded event for its first invoice, the
\* user's balance has been increased by the plan's amounts exactly once across
\* all those events (never more, and once when every delivery is answered).
C18_PurchaseGrantedOnce ==
    LET amt == credits_for_plan("monthly")
        once == [cv |-> STARTER_CV + amt[1], ai |-> STARTER_AI + amt[2]]
    IN /\ get_credits_by_user_id(1) \in {[cv |-> STARTER_CV, ai |-> STARTER_AI], once}
       /\ (/\ \A p \in Procs : pc[p] = "done" /\ result[p] # "error"
           /\ "checkout.session.completed" \in Answered
           /\ Answered \cap InvoiceTypes # {})
             => get_credits_by_user_id(1) = once

\* ------------------------------------------------------------ amounts of any sign

\* C21: no call of try_spend or spend_credits, with any integer amounts, raises a
\* user's balance in either kind: every credit_spends row ever inserted has
\* cv_amount >= 0 and ai_amount >= 0.
C21_NoNegativeSpend ==
    \A i \in 1..Len(credit_spends) :
        credit_spends[i].cv_amount >= 0 /\ credit_spends[i].ai_amount >= 0

\* ------------------------------------------------------------ referral count and referral grants

NextReferralFaults ==
    \/ NextReferral
    \/ \E p \in Procs : apply_referral_bonus_fails(p)

SpecReferralFaults == InitReferral /\ [][NextReferralFaults]_vars

\* C24: in every reachable state each user's referrals_count equals the number
\* of credit_grants rows with a referral_bonus source the user owns:
\* auth.apply_referral_bonus commits the grant insert and the count increment
\* together or not at all.
C24_CountMatchesGrants ==
    \A u \in Users : referrals_count[u] = Cardinality(ReferralGrantsOf(u))

\* one call has paid user 1, a second call for the same referee found the grant
\* and a third was rolled back at its insert
C24_Witness ==
    /\ \E p \in Procs : result[p] = "true" /\ local[p].referrer_id = 1
    /\ \E p \in Procs : pc[p] = "done" /\ local[p].inserted = "false"
    /\ \E p \in Procs : pc[p] = "done" /\ local[p].faulted /\ local[p].referrer_id = 1
    /\ referrals_count[1] >= 1

\* ------------------------------------------------------------ the ledger's rows

\* one call of each operation that writes the ledger, for user 1 (try_spend also
\* for user 2), and the deletion of user 2
LedgerCalls ==
    {e \in WebhookEvents : e.event = {1}}
    \cup GrantCalls({<<"stripe_invoice", 1>>})
    \cup {[NoArgs EXCEPT !.fn = "try_spend", !.user = u, !.cv = 1] : u \in {1, 2}}
    \cup {[NoArgs EXCEPT !.fn = "spend_credits", !.user = 1, !.cv = 2, !.ai = 1],
          [NoArgs EXCEPT !.fn = "grant_starter_credits", !.user = 1],
          [NoArgs EXCEPT !.fn = "apply_referral_bonus", !.user = 3, !.code = 1],
          [NoArgs EXCEPT !.fn = "delete_user", !.user = 2]}

\* user 2 holds the starter grant and has spent one CV
InitLedger ==
    InitState(LedgerCalls,
              <<GrantRow(2, <<"starter_grant", 2>>, STARTER_CV, STARTER_AI, NULL)>>,
              <<[user_id |-> 2, source |-> <<"spend", 0>>, cv_amount |-> 1, ai_amount |-> 0]>>,
              0)

NextLedger ==
    \/ \E p \in Procs : try_spend_lock(p)
    \/ \E p \in Procs : try_spend_balance(p)
    \/ \E p \in Procs : try_spend_insert(p)
    \/ \E p \in Procs : spend_credits_lock(p)
    \/ \E p \in Procs : spend_credits_balance(p)
    \/ \E p \in Procs : spend_credits_insert(p)
    \/ \E p \in Procs : insert_credit_grant(p)
    \/ \E p \in Procs : grant_starter_credits(p)
    \/ \E p \in Procs : apply_referral_bonus_referee(p)
    \/ \E p \in Procs : apply_referral_bonus_referrer(p)
    \/ \E p \in Procs : apply_referral_bonus_stamp(p)
    \/ \E p \in Procs : apply_referral_bonus_insert(p)
    \/ \E p \in Procs : stripe_webhook_receive(p)
    \/ \E p \in Procs : stripe_webhook_find_user(p)
    \/ \E p \in Procs : stripe_webhook_subscription(p)
    \/ \E p \in Procs : stripe_webhook_grant(p)
    \/ \E p \in Procs : delete_user(p)

SpecLedger == InitLedger /\ [][NextLedger]_vars

\* rows is the beginning of rows2
Extends(rows2, rows) ==
    /\ Len(rows2) >= Len(rows)
    /\ \A i \in 1..Len(rows) : rows2[i] = rows[i]

\* a step of delete_user takes away the rows of that user and no other; every
\* other step leaves each table as it was or with rows added at its end
C25_Step ==
    IF \E p \in Procs : args[p].fn = "delete_user" /\ pc[p] = "called" /\ pc'[p] = "done"
    THEN \E p \in Procs :
            /\ args[p].fn = "delete_user"
            /\ credit_grants' = SelectSeq(credit_grants, LAMBDA g : g.user_id # args[p].user)
            /\ credit_spends' = SelectSeq(credit_spends, LAMBDA r : r.user_id # args[p].user)
    ELSE /\ Extends(credit_grants', credit_grants)
         /\ Extends(credit_spends', credit_spends)

\* C25: the ledger is append-only: no step of try_spend, spend_credits,
\* insert_credit_grant, auth.grant_starter_credits, auth.apply_referral_bonus or
\* the webhook handler updates or deletes a credit_grants or credit_spends row;
\* apart from delete_user the rows only grow in number and keep their values.
C25_AppendOnly == [][C25_Step]_vars

\* user 2 was deleted with its rows, a grant of user 1 was added, and a second
\* grant call with the source of the one that exists changed nothing
C25_Witness ==
    /\ 2 \notin users
    /\ credit_spends = <<>>
    /\ Len(credit_grants) = 1
    /\ credit_grants[1].user_id = 1
    /\ \E p \in Procs : args[p].fn = "insert_credit_grant" /\ result[p] = "false"

\* ------------------------------------------------------------ what a spend is decided on

\* spends of user 1, and calls that change user 1's plan, role and subscription
AuthorizationCalls ==
    {[NoArgs EXCEPT !.fn = f, !.user = 1, !.cv = a[1], !.ai = a[2]] :
        f \in SpendFns, a \in {<<1, 0>>, <<2, 1>>}}
    \cup {[NoArgs EXCEPT !.fn = "set_plan", !.email = Email(1, 1), !.plan = "monthly"],
          [NoArgs EXCEPT !.fn = "set_role", !.email = Email(1, 0), !.role = "admin"],
          [NoArgs EXCEPT !.fn = "upsert_subscription", !.user = 1, !.customer = {1},
                         !.subscription = {1}, !.plan = "pro", !.status = "active",
                         !.expires = {1}]}

\* user 1 holds nothing or one grant of 2 CV / 1 AI
InitAuthorization ==
    \/ InitState(AuthorizationCalls, <<>>, <<>>, 0)
    \/ InitState(AuthorizationCalls, <<GrantRow(1, <<"stripe_invoice", 0>>, 2, 1, NULL)>>, <<>>, 0)

NextAuthorization ==
    \/ \E p \in Procs : try_spend_lock(p)
    \/ \E p \in Procs : try_spend_balance(p)
    \/ \E p \in Procs : try_spend_insert(p)
    \/ \E p \in Procs : spend_credits_lock(p)
    \/ \E p \in Procs : spend_credits_balance(p)
    \/ \E p \in Procs : spend_credits_insert(p)
    \/ \E p \in Procs : set_plan(p)
    \/ \E p \in Procs : set_role(p)
    \/ \E p \in Procs : upsert_subscription_call(p)

SpecAuthorization == InitAuthorization /\ [][NextAuthorization]_vars

\* a spend call takes each of its steps by the users' existence, the ledger rows
\* and its arguments alone: a missing user is refused, the balance it reads is
\* the ledger's, and the return and the inserted row follow from that balance
C26_Step ==
    \A p \in Procs : args[p].fn \in SpendFns =>
        /\ (pc[p] = "called" /\ pc'[p] # "called") =>
              /\ pc'[p] = "done" <=> args[p].user \notin users
              /\ pc'[p] = "done" => result'[p] = "false" /\ credit_spends' = credit_spends
        /\ (pc[p] = "locked" /\ pc'[p] = "read") => bal'[p] = HandNow(args[p].user)
        /\ (pc[p] = "read" /\ pc'[p] = "done") =>
              LET enough == /\ ~(args[p].cv > 0 /\ bal[p].cv < args[p].cv)
                            /\ ~(args[p].ai > 0 /\ bal[p].ai < args[p].ai)
              IN /\ result'[p] = IF enough THEN "true" ELSE "false"
                 /\ credit_spends' =
                       IF enough
                       THEN Append(credit_spends,
                                   [user_id |-> args[p].user, source |-> args[p].source,
                                    cv_amount |-> args[p].cv, ai_amount |-> args[p].ai])
                       ELSE credit_spends

\* C26: spend authorization depends only on the ledger: whatever the
\* subscriptions rows, users.plan and users.role are, a try_spend / spend_credits
\* call on the same users, credit_grants and credit_spends rows returns the same
\* result and inserts the same row.
C26_LedgerOnlyAuthorization == [][C26_Step]_vars

\* with user 1 on a changed plan, role or subscription, one spend was accepted
\* and one refused
C26_Witness ==
    /\ \/ user_rows[1].plan = "monthly"
       \/ user_rows[1].role = "admin"
       \/ subscriptions.rows # <<>>
    /\ \E p \in Procs : args[p].fn \in SpendFns /\ result[p] = "true"
    /\ \E p \in Procs : args[p].fn \in SpendFns /\ result[p] = "false"

\* ------------------------------------------------------------ one user's ledger and another's

\* users 1 and 2 each spend, are granted an invoice of their own and are given
\* their starter credits by either function
FrameCalls ==
    {[NoArgs EXCEPT !.fn = "try_spend", !.user = u, !.source = <<"spend", u>>, !.cv = 1, !.ai = 0] :
        u \in {1, 2}}
    \cup {[NoArgs EXCEPT !.fn = "insert_credit_grant", !.user = u, !.source = <<"stripe_invoice", u>>,
                         !.cv = 2, !.ai = 1] : u \in {1, 2}}
    \cup {[NoArgs EXCEPT !.fn = f, !.user = u] :
            f \in {"grant_starter_credits", "grant_starter_credits_once"}, u \in {1, 2}}

\* a fresh ledger, or one on which user 1 holds an invoice grant
InitFrame ==
    \/ InitWith(FrameCalls)
    \/ InitState(FrameCalls, <<GrantRow(1, <<"stripe_invoice", 0>>, 2, 1, NULL)>>, <<>>, 0)

NextFrame ==
    \/ \E p \in Procs : try_spend_lock(p)
    \/ \E p \in Procs : try_spend_balance(p)
    \/ \E p \in Procs : try_spend_insert(p)
    \/ \E p \in Procs : insert_credit_grant(p)
    \/ \E p \in Procs : grant_starter_credits(p)
    \/ \E p \in Procs : grant_starter_credits_once_read(p)
    \/ \E p \in Procs : grant_starter_credits_once_insert(p)

SpecFrame == InitFrame /\ [][NextFrame]_vars

\* the rows of a table that belong to a user
OwnedBy(rows, u) == SelectSeq(rows, LAMBDA r : r.user_id = u)

\* the source a grant operation writes
GrantSource(p) ==
    CASE args[p].fn = "grant_starter_credits" -> <<"starter_grant", args[p].user>>
      [] args[p].fn = "grant_starter_credits_once" -> <<"starter", 0>>
      [] OTHER -> args[p].source

\* the step in which a grant operation runs its INSERT
GrantInsertStep(p) ==
    /\ pc'[p] = "done"
    /\ \/ pc[p] = "called" /\ args[p].fn \in {"insert_credit_grant", "grant_starter_credits"}
       \/ pc[p] = "once_insert"

\* a step of an operation issued for user A leaves every other user's grant
\* rows, spend rows and balance as they were, and its INSERT of a grant adds a
\* row exactly when A's own rows do not hold the source
C27_Step ==
    \A p \in Procs : pc'[p] # pc[p] =>
        /\ \A b \in Users \ {args[p].user} :
              /\ OwnedBy(credit_grants', b) = OwnedBy(credit_grants, b)
              /\ OwnedBy(credit_spends', b) = OwnedBy(credit_spends, b)
              /\ HandNow(b)' = HandNow(b)
        /\ GrantInsertStep(p) =>
              (Len(credit_grants') > Len(credit_grants)
                  <=> ~SourceExists(OwnedBy(credit_grants, args[p].user), GrantSource(p)))

MeteredCalls ==
    {[NoArgs EXCEPT !.fn = "try_spend", !.user = 2, !.source = <<k, 0>>, !.ai = 1] :
        k \in {"job_search", "job_summary", "cover_letter"}}
    \cup {[NoArgs EXCEPT !.fn = "try_spend", !.user = 2, !.source = <<"cv_generate", 0>>, !.cv = 1]}
    \cup {[NoArgs EXCEPT !.fn = "spend_credits", !.user = 2, !.source = <<k, 0>>, !.ai = 1] :
            k \in {"ai_skills_improve", "ai_role_improve"}}
    \cup {[NoArgs EXCEPT !.fn = "has_free_quota", !.user = 2, !.source = <<"summary_uses", 0>>,
                         !.ai = 1]}

\* user 2 holds nothing, or one grant of 2 CV / 2 AI
InitMetered ==
    \/ InitWith(MeteredCalls)
    \/ InitState(MeteredCalls, <<GrantRow(2, <<"stripe_invoice", 0>>, 2, 2, NULL)>>, <<>>, 0)

NextMetered ==
    \/ \E p \in Procs : try_spend_lock(p)
    \/ \E p \in Procs : try_spend_balance(p)
    \/ \E p \in Procs : try_spend_insert(p)
    \/ \E p \in Procs : spend_credits_lock(p)
    \/ \E p \in Procs : spend_credits_balance(p)
    \/ \E p \in Procs : spend_credits_insert(p)
    \/ \E p \in Procs : has_free_quota(p)
    \/ \E p \in Procs : btn_summary(p)
    \/ \E p \in Procs : metered_action(p)
    \/ \E p \in Procs : st_stop(p)

SpecMetered ==
    /\ InitMetered
    /\ [][NextMetered]_vars
    /\ WF_vars(NextMetered)

\* the credit_spends rows of one credit written for a kind of action
SpendsFor(k) ==
    {i \in 1..Len(credit_spends) :
        /\ credit_spends[i].source = k
        /\ credit_spends[i].user_id = 2
        /\ credit_spends[i].cv_amount + credit_spends[i].ai_amount = 1}

\* C28: every credit-metered action the UI performs for a signed-in user who is
\* not owner or admin comes with exactly one successful ledger spend of one
\* credit of the matching kind: for each kind of action there are as many
\* credit_spends rows as handlers that spent for it, and no action has completed
\* without its row.
C28_ActionSpendsOnce ==
    \A k \in {c.source : c \in MeteredCalls} :
        /\ Cardinality({p \in Procs : args[p].source = k /\ pc[p] = "completed"})
              <= Cardinality(SpendsFor(k))
        /\ Cardinality(SpendsFor(k))
              = Cardinality({p \in Procs : args[p].source = k /\ result[p] = "true"
                                           /\ args[p].fn \in SpendFns})

\* ------------------------------------------------------------ the first user

\* registrations under two addresses, each written in lower case or not
AccountCalls ==
    {[NoArgs EXCEPT !.fn = "create_user", !.email = Email(n, c), !.password = 1] :
        n \in {1, 2}, c \in {0, 1}}

\* the state after init_db on a new database: no user yet
InitAccounts ==
    /\ users = {}
    /\ user_rows = <<>>
    /\ tokens_issued = 0
    /\ credit_grants = <<>>
    /\ credit_spends = <<>>
    /\ now = 0
    /\ row_lock = [u \in UserIds |-> 0]
    /\ pc = [p \in Procs |-> "called"]
    /\ bal = [p \in Procs |-> NoBal]
    /\ result = [p \in Procs |-> "none"]
    /\ local = [p \in Procs |-> NoLocal]
    /\ starter_credits_granted = {}
    /\ referred_by = [u \in Users |-> 0]
    /\ referrals_count = [u \in Users |-> 0]
    /\ count_increments = [u \in UserIds |-> 0]
    /\ stripe_events = {}
    /\ subscriptions = [unique_id |-> TRUE, rows |-> <<>>]
    /\ args \in [Procs -> AccountCalls]

NextAccounts ==
    \/ \E p \in Procs : create_user_select(p)
    \/ \E p \in Procs : create_user_count(p)
    \/ \E p \in Procs : create_user_insert(p)

SpecAccounts == InitAccounts /\ [][NextAccounts]_vars

\* C29: create_user makes only the first user owner: under any interleaving of
\* concurrent calls on an empty users table exactly one created user has role
\* "owner" and is_admin = 1 and every other one has role "user"; a call whose
\* email, compared without regard to case, exists returns False and inserts no
\* row.
C29_OneOwner ==
    /\ user_rows # <<>> =>
          Cardinality({i \in DOMAIN user_rows :
                          user_rows[i].role = "owner" /\ user_rows[i].is_admin = 1}) = 1
    /\ \A i \in DOMAIN user_rows :
          user_rows[i].role \in {"owner", "user"} /\ (user_rows[i].role = "user" => user_rows[i].is_admin = 0)
    /\ \A i \in DOMAIN user_rows : \A j \in DOMAIN user_rows :
          user_rows[i].email = user_rows[j].email => i = j
    /\ \A p \in Procs : result[p] \in {"none", "true", "false"}
    /\ Cardinality({p \in Procs : result[p] = "true"}) = Cardinality(DOMAIN user_rows)

\* ------------------------------------------------------------ reset tokens

\* user 1 resets the password with the token held at the start or with the next
\* one, asks for a new token and has the token cleared
ResetCalls ==
    {[NoArgs EXCEPT !.fn = "reset_password_with_token", !.token = t, !.password = w] :
        t \in {1, 2}, w \in {1, 2}}
    \cup {[NoArgs EXCEPT !.fn = "create_password_reset_token", !.email = Email(1, 1)],
          [NoArgs EXCEPT !.fn = "clear_reset_token", !.email = Email(1, 0)]}

\* the users are registered and user 1 was sent token 1 now or an hour ago
InitReset ==
    /\ users = Users
    /\ \E c \in {-1, 0} :
          user_rows = [RegisteredUsers EXCEPT ![1].reset_token = {1},
                                              ![1].reset_token_created_at = {c}]
    /\ tokens_issued = 1
    /\ credit_grants = <<>>
    /\ credit_spends = <<>>
    /\ now = 0
    /\ row_lock = [u \in UserIds |-> 0]
    /\ pc = [p \in Procs |-> "called"]
    /\ bal = [p \in Procs |-> NoBal]
    /\ result = [p \in Procs |-> "none"]
    /\ local = [p \in Procs |-> NoLocal]
    /\ starter_credits_granted = {}
    /\ referred_by = [u \in Users |-> 0]
    /\ referrals_count = [u \in Users |-> 0]
    /\ count_increments = [u \in UserIds |-> 0]
    /\ stripe_events = {}
    /\ subscriptions = [unique_id |-> TRUE, rows |-> <<>>]
    /\ args \in [Procs -> ResetCalls]

NextReset ==
    \/ Tick
    \/ \E p \in Procs : create_password_reset_token_select(p)
    \/ \E p \in Procs : create_password_reset_token_update(p)
    \/ \E p \in Procs : clear_reset_token(p)
    \/ \E p \in Procs : reset_password_with_token_check(p)
    \/ \E p \in Procs : reset_password_with_token_update(p)

SpecReset == InitReset /\ [][NextReset]_vars

\* the resets a token has made succeed
Successes(t) ==
    {p \in Procs : /\ args[p].fn = "reset_password_with_token"
                   /\ args[p].token = t
                   /\ result[p] = "true"}

\* a reset that succeeds does so while its token is the user's current one (no
\* newer token created, not cleared, not used) and not older than
\* RESET_TOKEN_EXPIRY_HOURS
C30_Success ==
    \A p \in Procs :
        (args[p].fn = "reset_password_with_token" /\ result[p] # "true" /\ result'[p] = "true")
            => get_user_by_reset_token(args[p].token, now) # {}

\* C30: a password-reset token is single-use and time-limited: under any
\* interleaving of calls a token makes reset_password_with_token succeed at most
\* once, only within RESET_TOKEN_EXPIRY_HOURS of its creation, and never after a
\* newer token was created for the user or after clear_reset_token.
C30_TokenSingleUse ==
    /\ [](\A t \in 1..tokens_issued : Cardinality(Successes(t)) <= 1)
    /\ [][C30_Success]_vars

\* ------------------------------------------------------------ duplicate referral calls

\* C23: a duplicate auth.apply_referral_bonus call for a referee whose referral
\* grant already exists returns the prior outcome: once a call for a referee
\* and code has returned True, every other call for the same referee and code,
\* made before or after it one at a time, returns True as well.
C23_DuplicateReturnsPrior ==
    \A p \in Procs : \A q \in Procs :
        (/\ args[p].fn = "apply_referral_bonus" /\ args[q].fn = "apply_referral_bonus"
         /\ args[p].user = args[q].user /\ args[p].code = args[q].code
         /\ pc[p] = "done" /\ pc[q] = "done"
         /\ result[q] = "true") => result[p] = "true"

\* ------------------------------------------------------------ the referee's referred_by

\* calls for referee 3 with the codes of users 1 and 2, with a code nobody has,
\* and a call for an email nobody has
StampCalls ==
    {[NoArgs EXCEPT !.fn = "apply_referral_bonus", !.user = 3, !.code = c] :
        c \in {1, 2, MissingUser}}
    \cup {[NoArgs EXCEPT !.fn = "apply_referral_bonus", !.user = MissingUser, !.code = 1]}

\* user 1 has made no referral yet, or is at the cap
InitStamp ==
    \E n \in {0, REFERRAL_CAP} : InitState(StampCalls, PriorReferralGrants(1, n), <<>>, n)

NextStamp ==
    \/ \E p \in Procs : apply_referral_bonus_referee(p)
    \/ \E p \in Procs : apply_referral_bonus_referrer(p)
    \/ \E p \in Procs : apply_referral_bonus_stamp(p)
    \/ \E p \in Procs : apply_referral_bonus_insert(p)

SpecStamp == InitStamp /\ [][NextStamp]_vars

\* the return of an apply_referral_bonus call: with referee and referrer found,
\* referred_by stays what it was if it was set and is the call's code if not;
\* with either missing the call returns False and no row differs
C22_Return ==
    \A p \in Procs :
        (args[p].fn = "apply_referral_bonus" /\ pc[p] # "done" /\ pc'[p] = "done") =>
            LET referee == args[p].user
            IN IF referee \in users /\ ReferrerOf(args[p].code) \in users
               THEN referred_by'[referee] = IF referred_by[referee] # 0
                                            THEN referred_by[referee] ELSE args[p].code
               ELSE /\ result'[p] = "false"
                    /\ UNCHANGED <<users, referred_by, referrals_count, credit_grants,
                                   credit_spends>>

\* C22: when the referee (by email) and the referrer (by code) exist, after an
\* auth.apply_referral_bonus call referred_by keeps its previous value if that
\* was non-empty and otherwise equals the referral code, whether the cap was
\* reached, the grant was new or the grant already existed; when the referee or
\* the referrer is missing the call returns False and changes no row.
C22_ReferredByStampedOnce == [][C22_Return]_vars

\* ------------------------------------------------------------ the whole program

Init ==
    \/ InitSpend
    \/ InitRace
    \/ InitGrant
    \/ InitPaths
    \/ InitWebhook
    \/ InitReferral
    \/ InitReferralSeq
    \/ InitSession
    \/ InitStarter
    \/ InitFaults
    \/ InitSubscriptions
    \/ InitDelivery
    \/ InitStarterSpend
    \/ InitPurchase
    \/ InitStamp
    \/ InitLedger
    \/ InitAuthorization
    \/ InitFrame
    \/ InitMetered
    \/ InitAccounts
    \/ InitReset

Next ==
    \/ NextSpend
    \/ NextRace
    \/ NextGrant
    \/ NextPaths
    \/ NextWebhook
    \/ NextReferral
    \/ NextSession
    \/ NextFaults
    \/ NextSubscriptions
    \/ NextRedelivery
    \/ NextStarterSpend
    \/ NextPurchase
    \/ NextReferralFaults
    \/ NextLedger
    \/ NextAuthorization
    \/ NextFrame
    \/ NextMetered
    \/ NextAccounts
    \/ NextReset

Spec == Init /\ [][Next]_vars

====
